---- MODULE Spec2Model ----
(***************************************************************************)
(* Model of the f1-ps-telemetry UDP unpacker.                              *)
(*                                                                         *)
(*   packets.py     the format-2022 layout registry (ctypes structures),   *)
(*                  its dispatch table and the module-level decoder        *)
(*   unpack_udp.py  class UDPUnpacker: constructor, udp_spec property and  *)
(*                  setter, unpack_udp_packet                              *)
(*                                                                         *)
(* A ctypes structure is modelled by its _fields_ list; sizes and offsets  *)
(* are computed from the lists with _pack_ = 1 (no padding).  A datagram   *)
(* is its length plus the explicit bytes of its first Window bytes; the    *)
(* remaining bytes are never inspected by the decoder's checks.            *)
(***************************************************************************)
EXTENDS Integers, Sequences, FiniteSets, TLC

\* One entry of a _fields_ list: (name, ctype) or (name, ctype * count).
F(n, t, c) == [name |-> n, ctype |-> t, count |-> c]

\* ctypes.sizeof of the primitive C types used by packets.py.
PrimSize ==
    [c_uint8 |-> 1, c_int8 |-> 1, c_char |-> 1,
     c_uint16 |-> 2, c_int16 |-> 2,
     c_uint32 |-> 4, c_float |-> 4,
     c_uint64 |-> 8, c_double |-> 8]

(***************************************************************************)
(* Layout registry of packets.py (format 2022).                            *)
(***************************************************************************)
\* packets.py:50-74  class PacketHeader (struct)
PacketHeader ==
    <<
       F("packetFormat", "c_uint16", 1),
       F("gameMajorVersion", "c_uint8", 1),
       F("gameMinorVersion", "c_uint8", 1),
       F("packetVersion", "c_uint8", 1),
       F("packetId", "c_uint8", 1),
       F("sessionUID", "c_uint64", 1),
       F("sessionTime", "c_float", 1),
       F("frameIdentifier", "c_uint32", 1),
       F("playerCarIndex", "c_uint8", 1),
       F("secondaryPlayerCarIndex", "c_uint8", 1)
    >>

\* packets.py:133-173  class CarMotionData_V1 (struct)
CarMotionData_V1 ==
    <<
       F("worldPositionX", "c_float", 1),
       F("worldPositionY", "c_float", 1),
       F("worldPositionZ", "c_float", 1),
       F("worldVelocityX", "c_float", 1),
       F("worldVelocityY", "c_float", 1),
       F("worldVelocityZ", "c_float", 1),
       F("worldForwardDirX", "c_int16", 1),
       F("worldForwardDirY", "c_int16", 1),
       F("worldForwardDirZ", "c_int16", 1),
       F("worldRightDirX", "c_int16", 1),
       F("worldRightDirY", "c_int16", 1),
       F("worldRightDirZ", "c_int16", 1),
       F("gForceLateral", "c_float", 1),
       F("gForceLongitudinal", "c_float", 1),
       F("gForceVertical", "c_float", 1),
       F("yaw", "c_float", 1),
       F("pitch", "c_float", 1),
       F("roll", "c_float", 1)
    >>

\* packets.py:176-211  class PacketMotionData_V1 (struct)
PacketMotionData_V1 ==
    <<
       F("header", "PacketHeader", 1),
       F("carMotionData", "CarMotionData_V1", 22),
       F("suspensionPosition", "c_float", 4),
       F("suspensionVelocity", "c_float", 4),
       F("suspensionAcceleration", "c_float", 4),
       F("wheelSpeed", "c_float", 4),
       F("wheelSlip", "c_float", 4),
       F("localVelocityX", "c_float", 1),
       F("localVelocityY", "c_float", 1),
       F("localVelocityZ", "c_float", 1),
       F("angularVelocityX", "c_float", 1),
       F("angularVelocityY", "c_float", 1),
       F("angularVelocityZ", "c_float", 1),
       F("angularAccelerationX", "c_float", 1),
       F("angularAccelerationY", "c_float", 1),
       F("angularAccelerationZ", "c_float", 1),
       F("frontWheelsAngle", "c_float", 1)
    >>

\* packets.py:221-233  class MarshalZone_V1 (struct)
MarshalZone_V1 ==
    <<
       F("zoneStart", "c_float", 1),
       F("zoneFlag", "c_int8", 1)
    >>

\* packets.py:236-262  class WeatherForecastSample_V1 (struct)
WeatherForecastSample_V1 ==
    <<
       F("sessionType", "c_uint8", 1),
       F("timeOffset", "c_uint8", 1),
       F("weather", "c_uint8", 1),
       F("trackTemperature", "c_int8", 1),
       F("trackTemperatureChange", "c_int8", 1),
       F("airTemperature", "c_int8", 1),
       F("airTemperatureChange", "c_int8", 1),
       F("rainPercentage", "c_uint8", 1)
    >>

\* packets.py:265-362  class PacketSessionData_V1 (struct)
PacketSessionData_V1 ==
    <<
       F("header", "PacketHeader", 1),
       F("weather", "c_uint8", 1),
       F("trackTemperature", "c_int8", 1),
       F("airTemperature", "c_int8", 1),
       F("totalLaps", "c_uint8", 1),
       F("trackLength", "c_uint16", 1),
       F("sessionType", "c_uint8", 1),
       F("trackId", "c_int8", 1),
       F("formula", "c_uint8", 1),
       F("sessionTimeLeft", "c_uint16", 1),
       F("sessionDuration", "c_uint16", 1),
       F("pitSpeedLimit", "c_uint8", 1),
       F("gamePaused", "c_uint8", 1),
       F("isSpectating", "c_uint8", 1),
       F("spectatorCarIndex", "c_uint8", 1),
       F("sliProNativeSupport", "c_uint8", 1),
       F("numMarshalZones", "c_uint8", 1),
       F("marshalZones", "MarshalZone_V1", 21),
       F("safetyCarStatus", "c_uint8", 1),
       F("networkGame", "c_uint8", 1),
       F("numWeatherForecastSamples", "c_uint8", 1),
       F("weatherForecastSamples", "WeatherForecastSample_V1", 56),
       F("forecastAccuracy", "c_uint8", 1),
       F("aiDifficulty", "c_uint8", 1),
       F("seasonLinkIdentifier", "c_uint32", 1),
       F("weekendLinkIdentifier", "c_uint32", 1),
       F("sessionLinkIdentifier", "c_uint32", 1),
       F("pitStopWindowIdealLap", "c_uint8", 1),
       F("pitStopWindowLatestLap", "c_uint8", 1),
       F("pitStopRejoinPosition", "c_uint8", 1),
       F("steeringAssist", "c_uint8", 1),
       F("brakingAssist", "c_uint8", 1),
       F("gearboxAssist", "c_uint8", 1),
       F("pitAssist", "c_uint8", 1),
       F("pitReleaseAssist", "c_uint8", 1),
       F("ERSAssist", "c_uint8", 1),
       F("DRSAssist", "c_uint8", 1),
       F("dynamicRacingLine", "c_uint8", 1),
       F("dynamicRacingLineType", "c_uint8", 1),
       F("gameMode", "c_uint8", 1),
       F("ruleSet", "c_uint8", 1),
       F("timeOfDay", "c_uint32", 1),
       F("sessionLength", "c_uint8", 1)
    >>

\* packets.py:372-441  class LapData_V1 (struct)
LapData_V1 ==
    <<
       F("lastLapTimeInMS", "c_uint32", 1),
       F("currentLapTimeInMS", "c_uint32", 1),
       F("sector1TimeInMS", "c_uint16", 1),
       F("sector2TimeInMS", "c_uint16", 1),
       F("lapDistance", "c_float", 1),
       F("totalDistance", "c_float", 1),
       F("safetyCarDelta", "c_float", 1),
       F("carPosition", "c_uint8", 1),
       F("currentLapNum", "c_uint8", 1),
       F("pitStatus", "c_uint8", 1),
       F("numPitStops", "c_uint8", 1),
       F("sector", "c_uint8", 1),
       F("currentLapInvalid", "c_uint8", 1),
       F("penalties", "c_uint8", 1),
       F("warnings", "c_uint8", 1),
       F("numUnservedDriveThroughPens", "c_uint8", 1),
       F("numUnservedStopGoPens", "c_uint8", 1),
       F("gridPosition", "c_uint8", 1),
       F("driverStatus", "c_uint8", 1),
       F("resultStatus", "c_uint8", 1),
       F("pitLaneTimerActive", "c_uint8", 1),
       F("pitLaneTimeInLaneInMS", "c_uint16", 1),
       F("pitStopTimerInMS", "c_uint16", 1),
       F("pitStopShouldServePen", "c_uint8", 1)
    >>

\* packets.py:444-463  class PacketLapData_V1 (struct)
PacketLapData_V1 ==
    <<
       F("header", "PacketHeader", 1),
       F("lapData", "LapData_V1", 22),
       F("timeTrialPBCarIdx", "c_uint8", 1),
       F("timeTrialRivalCarIdx", "c_uint8", 1)
    >>

\* packets.py:473-477  class FastestLap_V1 (struct)
FastestLap_V1 ==
    <<
       F("vehicleIdx", "c_uint8", 1),
       F("lapTime", "c_float", 1)
    >>

\* packets.py:480-481  class Retirement_V1 (struct)
Retirement_V1 ==
    <<
       F("vehicleIdx", "c_uint8", 1)
    >>

\* packets.py:484-485  class TeamMateInPits_V1 (struct)
TeamMateInPits_V1 ==
    <<
       F("vehicleIdx", "c_uint8", 1)
    >>

\* packets.py:488-489  class RaceWinner_V1 (struct)
RaceWinner_V1 ==
    <<
       F("vehicleIdx", "c_uint8", 1)
    >>

\* packets.py:492-504  class Penalty_V1 (struct)
Penalty_V1 ==
    <<
       F("penaltyType", "c_uint8", 1),
       F("infringementType", "c_uint8", 1),
       F("vehicleIdx", "c_uint8", 1),
       F("otherVehicleIdx", "c_uint8", 1),
       F("time", "c_uint8", 1),
       F("lapNum", "c_uint8", 1),
       F("placesGained", "c_uint8", 1)
    >>

\* packets.py:507-530  class SpeedTrap_V1 (struct)
SpeedTrap_V1 ==
    <<
       F("vehicleIdx", "c_uint8", 1),
       F("speed", "c_float", 1),
       F("isOverallFastestInSession", "c_uint8", 1),
       F("isDriverFastestInSession", "c_uint8", 1),
       F("fastestVehicleIdxInSession", "c_uint8", 1),
       F("fastestSpeedInSession", "c_float", 1)
    >>

\* packets.py:533-534  class StartLights_V1 (struct)
StartLights_V1 ==
    <<
       F("numLights", "c_uint8", 1)
    >>

\* packets.py:537-543  class DriveThroughPenaltyServed_V1 (struct)
DriveThroughPenaltyServed_V1 ==
    <<
       F("vehicleIdx", "c_uint8", 1)
    >>

\* packets.py:546-549  class StopGoPenaltyServed_V1 (struct)
StopGoPenaltyServed_V1 ==
    <<
       F("vehicleIdx", "c_uint8", 1)
    >>

\* packets.py:552-559  class Flashback_V1 (struct)
Flashback_V1 ==
    <<
       F("flashbackFrameIdentifier", "c_uint32", 1),
       F("flashbackSessionTime", "c_float", 1)
    >>

\* packets.py:562-568  class Buttons_V1 (struct)
Buttons_V1 ==
    <<
       F("buttonStatus", "c_uint32", 1)
    >>

\* packets.py:571-586  class EventDataDetails_V1 (union)
EventDataDetails_V1 ==
    <<
       F("fastestLap", "FastestLap_V1", 1),
       F("retirement", "Retirement_V1", 1),
       F("teamMateInPits", "TeamMateInPits_V1", 1),
       F("raceWinner", "RaceWinner_V1", 1),
       F("penalty", "Penalty_V1", 1),
       F("speedTrap", "SpeedTrap_V1", 1),
       F("startLIghts", "StartLights_V1", 1),
       F("driveThroughPenaltyServed", "DriveThroughPenaltyServed_V1", 1),
       F("stopGoPenaltyServed", "StopGoPenaltyServed_V1", 1),
       F("flashback", "Flashback_V1", 1),
       F("buttons", "Buttons_V1", 1)
    >>

\* packets.py:589-604  class PacketEventData_V1 (struct)
PacketEventData_V1 ==
    <<
       F("header", "PacketHeader", 1),
       F("eventStringCode", "c_uint8", 4),
       F("eventDetails", "EventDataDetails_V1", 1)
    >>

\* packets.py:678-704  class ParticipantData_V1 (struct)
ParticipantData_V1 ==
    <<
       F("aiControlled", "c_uint8", 1),
       F("driverId", "c_uint8", 1),
       F("networkId", "c_uint8", 1),
       F("teamId", "c_uint8", 1),
       F("myTeam", "c_uint8", 1),
       F("raceNumber", "c_uint8", 1),
       F("nationality", "c_uint8", 1),
       F("name", "c_char", 48),
       F("yourTelemetry", "c_uint8", 1)
    >>

\* packets.py:707-730  class PacketParticipantsData_V1 (struct)
PacketParticipantsData_V1 ==
    <<
       F("header", "PacketHeader", 1),
       F("numActiveCars", "c_uint8", 1),
       F("participants", "ParticipantData_V1", 22)
    >>

\* packets.py:740-772  class CarSetupData_V1 (struct)
CarSetupData_V1 ==
    <<
       F("frontWing", "c_uint8", 1),
       F("rearWing", "c_uint8", 1),
       F("onThrottle", "c_uint8", 1),
       F("offThrottle", "c_uint8", 1),
       F("frontCamber", "c_float", 1),
       F("rearCamber", "c_float", 1),
       F("frontToe", "c_float", 1),
       F("rearToe", "c_float", 1),
       F("frontSuspension", "c_uint8", 1),
       F("rearSuspension", "c_uint8", 1),
       F("frontAntiRollBar", "c_uint8", 1),
       F("rearAntiRollBar", "c_uint8", 1),
       F("frontSuspensionHeight", "c_uint8", 1),
       F("rearSuspensionHeight", "c_uint8", 1),
       F("brakePressure", "c_uint8", 1),
       F("brakeBias", "c_uint8", 1),
       F("rearLeftTyrePressure", "c_float", 1),
       F("rearRightTyrePressure", "c_float", 1),
       F("frontLeftTyrePressure", "c_float", 1),
       F("frontRightTyrePressure", "c_float", 1),
       F("ballast", "c_uint8", 1),
       F("fuelLoad", "c_float", 1)
    >>

\* packets.py:775-785  class PacketCarSetupData_V1 (struct)
PacketCarSetupData_V1 ==
    <<
       F("header", "PacketHeader", 1),
       F("carSetups", "CarSetupData_V1", 22)
    >>

\* packets.py:795-827  class CarTelemetryData_V1 (struct)
CarTelemetryData_V1 ==
    <<
       F("speed", "c_uint16", 1),
       F("throttle", "c_float", 1),
       F("steer", "c_float", 1),
       F("brake", "c_float", 1),
       F("clutch", "c_uint8", 1),
       F("gear", "c_int8", 1),
       F("engineRPM", "c_uint16", 1),
       F("drs", "c_uint8", 1),
       F("revLightsPercent", "c_uint8", 1),
       F("revLightsBitValue", "c_uint16", 1),
       F("brakesTemperature", "c_uint16", 4),
       F("tyresSurfaceTemperature", "c_uint8", 4),
       F("tyresInnerTemperature", "c_uint8", 4),
       F("engineTemperature", "c_uint16", 1),
       F("tyresPressure", "c_float", 4),
       F("surfaceType", "c_uint8", 4)
    >>

\* packets.py:830-853  class PacketCarTelemetryData_V1 (struct)
PacketCarTelemetryData_V1 ==
    <<
       F("header", "PacketHeader", 1),
       F("carTelemetryData", "CarTelemetryData_V1", 22),
       F("mfdPanelIndex", "c_uint8", 1),
       F("mfdPanelIndexSecondaryPlayer", "c_uint8", 1),
       F("suggestedGear", "c_int8", 1)
    >>

\* packets.py:863-927  class CarStatusData_V1 (struct)
CarStatusData_V1 ==
    <<
       F("tractionControl", "c_uint8", 1),
       F("antiLockBrakes", "c_uint8", 1),
       F("fuelMix", "c_uint8", 1),
       F("frontBrakeBias", "c_uint8", 1),
       F("pitLimiterStatus", "c_uint8", 1),
       F("fuelInTank", "c_float", 1),
       F("fuelCapacity", "c_float", 1),
       F("fuelRemainingLaps", "c_float", 1),
       F("maxRPM", "c_uint16", 1),
       F("idleRPM", "c_uint16", 1),
       F("maxGears", "c_uint8", 1),
       F("drsAllowed", "c_uint8", 1),
       F("drsActivationDistance", "c_uint16", 1),
       F("actualTyreCompound", "c_uint8", 1),
       F("visualTyreCompound", "c_uint8", 1),
       F("tyresAgeLaps", "c_uint8", 1),
       F("vehicleFiaFlags", "c_int8", 1),
       F("ersStoreEnergy", "c_float", 1),
       F("ersDeployMode", "c_uint8", 1),
       F("ersHarvestedThisLapMGUK", "c_float", 1),
       F("ersHarvestedThisLapMGUH", "c_float", 1),
       F("ersDeployedThisLap", "c_float", 1),
       F("networkPaused", "c_uint8", 1)
    >>

\* packets.py:930-941  class PacketCarStatusData_V1 (struct)
PacketCarStatusData_V1 ==
    <<
       F("header", "PacketHeader", 1),
       F("carStatusData", "CarStatusData_V1", 22)
    >>

\* packets.py:951-980  class FinalClassificationData_V1 (struct)
FinalClassificationData_V1 ==
    <<
       F("position", "c_uint8", 1),
       F("numLaps", "c_uint8", 1),
       F("gridPosition", "c_uint8", 1),
       F("points", "c_uint8", 1),
       F("numPitStops", "c_uint8", 1),
       F("resultStatus", "c_uint8", 1),
       F("bestLapTimeInMS", "c_uint32", 1),
       F("totalRaceTime", "c_double", 1),
       F("penaltiesTime", "c_uint8", 1),
       F("numPenalties", "c_uint8", 1),
       F("numTyreStints", "c_uint8", 1),
       F("tyreStintsActual", "c_uint8", 8),
       F("tyreStintsVisual", "c_uint8", 8),
       F("tyreStintsEndLaps", "c_uint8", 8)
    >>

\* packets.py:983-998  class PacketFinalClassificationData_V1 (struct)
PacketFinalClassificationData_V1 ==
    <<
       F("header", "PacketHeader", 1),
       F("numCars", "c_uint8", 1),
       F("classificationData", "FinalClassificationData_V1", 22)
    >>

\* packets.py:1008-1028  class LobbyInfoData_V1 (struct)
LobbyInfoData_V1 ==
    <<
       F("aiControlled", "c_uint8", 1),
       F("teamId", "c_uint8", 1),
       F("nationality", "c_uint8", 1),
       F("name", "c_char", 48),
       F("carNumber", "c_uint8", 1),
       F("readyStatus", "c_uint8", 1)
    >>

\* packets.py:1031-1045  class PacketLobbyInfoData_V1 (struct)
PacketLobbyInfoData_V1 ==
    <<
       F("header", "PacketHeader", 1),
       F("numPlayers", "c_uint8", 1),
       F("lobbyPlayers", "LobbyInfoData_V1", 22)
    >>

\* packets.py:1055-1083  class CarDamageData_V1 (struct)
CarDamageData_V1 ==
    <<
       F("tyresWear", "c_float", 4),
       F("tyresDamage", "c_uint8", 4),
       F("brakesDamage", "c_uint8", 4),
       F("frontLeftWingDamage", "c_uint8", 1),
       F("frontRightWingDamage", "c_uint8", 1),
       F("rearWingDamage", "c_uint8", 1),
       F("floorDamage", "c_uint8", 1),
       F("diffuserDamage", "c_uint8", 1),
       F("sidepodDamage", "c_uint8", 1),
       F("drsFault", "c_uint8", 1),
       F("ersFault", "c_uint8", 1),
       F("gearBoxDamage", "c_uint8", 1),
       F("engineDamage", "c_uint8", 1),
       F("engineMGUHWear", "c_uint8", 1),
       F("engineESWear", "c_uint8", 1),
       F("engineCEWear", "c_uint8", 1),
       F("engineICEWear", "c_uint8", 1),
       F("engineMGUKWear", "c_uint8", 1),
       F("engineTCWear", "c_uint8", 1),
       F("engineBlown", "c_uint8", 1),
       F("engineSeized", "c_uint8", 1)
    >>

\* packets.py:1086-1097  class PacketCarDamageData_V1 (struct)
PacketCarDamageData_V1 ==
    <<
       F("header", "PacketHeader", 1),
       F("carDamageData", "CarDamageData_V1", 22)
    >>

\* packets.py:1107-1120  class LapHistoryData_V1 (struct)
LapHistoryData_V1 ==
    <<
       F("lapTimeInMS", "c_uint32", 1),
       F("sector1TimeInMS", "c_uint16", 1),
       F("sector2TimeInMS", "c_uint16", 1),
       F("sector3TimeInMS", "c_uint16", 1),
       F("lapValidBitFlags", "c_uint8", 1)
    >>

\* packets.py:1123-1130  class TyreStintHistoryData_V1 (struct)
TyreStintHistoryData_V1 ==
    <<
       F("endLap", "c_uint8", 1),
       F("tyreActualCompound", "c_uint8", 1),
       F("tyreVisualCompound", "c_uint8", 1)
    >>

\* packets.py:1133-1171  class PacketSessionHistoryData_V1 (struct)
PacketSessionHistoryData_V1 ==
    <<
       F("header", "PacketHeader", 1),
       F("carIdx", "c_uint8", 1),
       F("numLaps", "c_uint8", 1),
       F("numTyreStints", "c_uint8", 1),
       F("bestLapTimeLapNum", "c_uint8", 1),
       F("bestSector1LapNum", "c_uint8", 1),
       F("bestSector2LapNum", "c_uint8", 1),
       F("bestSector3LapNum", "c_uint8", 1),
       F("lapHistoryData", "LapHistoryData_V1", 100),
       F("tyreStintsHistoryData", "TyreStintHistoryData_V1", 8)
    >>

(***************************************************************************)
(* Generation 23 (module packets_23).  Its header model and packet types   *)
(* follow the data model's rule that the header width and the packet sizes *)
(* are defined per generation and that generations are not binary          *)
(* compatible: a wider header (two more fields) and bodies given only by   *)
(* their byte counts.                                                      *)
(***************************************************************************)
PacketHeader_23 ==
    <<
       F("packetFormat", "c_uint16", 1),
       F("gameYear", "c_uint8", 1),
       F("gameMajorVersion", "c_uint8", 1),
       F("gameMinorVersion", "c_uint8", 1),
       F("packetVersion", "c_uint8", 1),
       F("packetId", "c_uint8", 1),
       F("sessionUID", "c_uint64", 1),
       F("sessionTime", "c_float", 1),
       F("frameIdentifier", "c_uint32", 1),
       F("overallFrameIdentifier", "c_uint32", 1),
       F("playerCarIndex", "c_uint8", 1),
       F("secondaryPlayerCarIndex", "c_uint8", 1)
    >>

\* A generation-23 packet type: the generation-23 header, then bodyBytes bytes.
Packet_23(bodyBytes) ==
    << F("header", "PacketHeader_23", 1), F("body", "c_uint8", bodyBytes) >>

\* The structure types of packets.py by class name.
Layout_22 ==
    [PacketHeader |-> PacketHeader,
     CarMotionData_V1 |-> CarMotionData_V1,
     PacketMotionData_V1 |-> PacketMotionData_V1,
     MarshalZone_V1 |-> MarshalZone_V1,
     WeatherForecastSample_V1 |-> WeatherForecastSample_V1,
     PacketSessionData_V1 |-> PacketSessionData_V1,
     LapData_V1 |-> LapData_V1,
     PacketLapData_V1 |-> PacketLapData_V1,
     FastestLap_V1 |-> FastestLap_V1,
     Retirement_V1 |-> Retirement_V1,
     TeamMateInPits_V1 |-> TeamMateInPits_V1,
     RaceWinner_V1 |-> RaceWinner_V1,
     Penalty_V1 |-> Penalty_V1,
     SpeedTrap_V1 |-> SpeedTrap_V1,
     StartLights_V1 |-> StartLights_V1,
     DriveThroughPenaltyServed_V1 |-> DriveThroughPenaltyServed_V1,
     StopGoPenaltyServed_V1 |-> StopGoPenaltyServed_V1,
     Flashback_V1 |-> Flashback_V1,
     Buttons_V1 |-> Buttons_V1,
     EventDataDetails_V1 |-> EventDataDetails_V1,
     PacketEventData_V1 |-> PacketEventData_V1,
     ParticipantData_V1 |-> ParticipantData_V1,
     PacketParticipantsData_V1 |-> PacketParticipantsData_V1,
     CarSetupData_V1 |-> CarSetupData_V1,
     PacketCarSetupData_V1 |-> PacketCarSetupData_V1,
     CarTelemetryData_V1 |-> CarTelemetryData_V1,
     PacketCarTelemetryData_V1 |-> PacketCarTelemetryData_V1,
     CarStatusData_V1 |-> CarStatusData_V1,
     PacketCarStatusData_V1 |-> PacketCarStatusData_V1,
     FinalClassificationData_V1 |-> FinalClassificationData_V1,
     PacketFinalClassificationData_V1 |-> PacketFinalClassificationData_V1,
     LobbyInfoData_V1 |-> LobbyInfoData_V1,
     PacketLobbyInfoData_V1 |-> PacketLobbyInfoData_V1,
     CarDamageData_V1 |-> CarDamageData_V1,
     PacketCarDamageData_V1 |-> PacketCarDamageData_V1,
     LapHistoryData_V1 |-> LapHistoryData_V1,
     TyreStintHistoryData_V1 |-> TyreStintHistoryData_V1,
     PacketSessionHistoryData_V1 |-> PacketSessionHistoryData_V1]

\* The structure types of generation 23 by class name.
Layout_23 ==
    [PacketHeader_23 |-> PacketHeader_23,
     PacketMotionData_23 |-> Packet_23(1320),
     PacketSessionData_23 |-> Packet_23(615),
     PacketLapData_23 |-> Packet_23(1102),
     PacketEventData_23 |-> Packet_23(16),
     PacketParticipantsData_23 |-> Packet_23(1277),
     PacketCarSetupData_23 |-> Packet_23(1078),
     PacketCarTelemetryData_23 |-> Packet_23(1323),
     PacketCarStatusData_23 |-> Packet_23(1210),
     PacketFinalClassificationData_23 |-> Packet_23(991),
     PacketLobbyInfoData_23 |-> Packet_23(1189),
     PacketCarDamageData_23 |-> Packet_23(924),
     PacketSessionHistoryData_23 |-> Packet_23(1431),
     PacketTyreSetsData_23 |-> Packet_23(202),
     PacketMotionExData_23 |-> Packet_23(188)]

\* Every structure type by class name.
Layout == Layout_22 @@ Layout_23

\* The classes that derive from ctypes.Union: all members overlay offset 0.
Unions == {"EventDataDetails_V1"}

Max(S) == CHOOSE m \in S : \A x \in S : x <= m

RECURSIVE SumTo(_, _)
\* sum of f[1] .. f[n]
SumTo(f, n) == IF n = 0 THEN 0 ELSE f[n] + SumTo(f, n - 1)

\* The multiple of a at or above n.
RoundUp(n, a) == ((n + a - 1) \div a) * a

RECURSIVE alignof(_)
\* Natural alignment: a scalar's own width, an aggregate's widest member.
alignof(t) ==
    IF t \in DOMAIN PrimSize
    THEN PrimSize[t]
    ELSE Max({alignof(Layout[t][i].ctype) : i \in 1..Len(Layout[t])})

RECURSIVE sizeof_NotPacked(_)
RECURSIVE Place(_, _, _)
\* End offset of fields i.. of fl laid out from off, each on its alignment.
Place(fl, i, off) ==
    IF i > Len(fl) THEN off
    ELSE Place(fl, i + 1,
               RoundUp(off, alignof(fl[i].ctype))
                   + sizeof_NotPacked(fl[i].ctype) * fl[i].count)

\* Mutant of sizeof: _pack_ = 1 left out, so fields are padded to their
\* natural alignment.
sizeof_NotPacked(t) ==
    IF t \in DOMAIN PrimSize
    THEN PrimSize[t]
    ELSE IF t \in Unions
         THEN RoundUp(Max({sizeof_NotPacked(Layout[t][i].ctype) * Layout[t][i].count :
                              i \in 1..Len(Layout[t])}),
                      alignof(t))
         ELSE RoundUp(Place(Layout[t], 1, 0), alignof(t))

RECURSIVE sizeof_UnionSum(_)
\* Mutant of sizeof: a union is sized as a structure, the sum of its members.
sizeof_UnionSum(t) ==
    IF t \in DOMAIN PrimSize
    THEN PrimSize[t]
    ELSE LET fl == Layout[t]
             w  == [i \in 1..Len(fl) |-> sizeof_UnionSum(fl[i].ctype) * fl[i].count]
         IN  SumTo(w, Len(fl))

RECURSIVE sizeof(_)
\* ctypes.sizeof with _pack_ = 1: a structure is the sum of its fields'
\* widths (element size times count), a union the width of its widest member.
sizeof(t) ==
    IF t \in DOMAIN PrimSize
    THEN PrimSize[t]
    ELSE LET fl == Layout[t]
             w  == [i \in 1..Len(fl) |-> sizeof(fl[i].ctype) * fl[i].count]
         IN  IF t \in Unions
             THEN Max({w[i] : i \in 1..Len(fl)})
             ELSE SumTo(w, Len(fl))

\* ctypes.sizeof of every structure type, evaluated once.
SizeOfType == [t \in DOMAIN Layout |-> sizeof(t)]

\* Where each field of each structure lies: its byte offset (packed: the
\* sum of the widths of the fields before it; every member of a union is
\* at 0), its ctype and its element count.
FieldTable ==
    [t \in DOMAIN Layout |->
        LET fl == Layout[t]
            w  == [i \in 1..Len(fl) |-> sizeof(fl[i].ctype) * fl[i].count]
        IN  [n \in {fl[i].name : i \in 1..Len(fl)} |->
                LET i == CHOOSE k \in 1..Len(fl) : fl[k].name = n
                IN  [offset |-> IF t \in Unions THEN 0 ELSE SumTo(w, i - 1),
                     ctype |-> fl[i].ctype,
                     count |-> fl[i].count]]]

\* Byte offset of field n inside structure t.
offsetof(t, n) == FieldTable[t][n].offset

(***************************************************************************)
(* Dispatch tables: (packetFormat, packetVersion, packetId) -> packet type *)
(***************************************************************************)
\* packets.py:77-92  class PacketID(enum.IntEnum)
PacketID ==
    [MOTION |-> 0, SESSION |-> 1, LAP_DATA |-> 2, EVENT |-> 3, PARTICIPANTS |-> 4,
     CAR_SETUPS |-> 5, CAR_TELEMETRY |-> 6, CAR_STATUS |-> 7,
     FINAL_CLASSIFICATION |-> 8, LOBBY_INFO |-> 9, CAR_DAMAGE |-> 10,
     SESSION_HISTORY |-> 11]

\* Mutant of the format-2022 table: event packets of packetVersion 2 are
\* registered as well.
HeaderFieldsToPacketType_22_AlsoVersion2 ==
    (<<2022, 1, 0>> :> "PacketMotionData_V1") @@
    (<<2022, 1, 1>> :> "PacketSessionData_V1") @@
    (<<2022, 1, 2>> :> "PacketLapData_V1") @@
    (<<2022, 1, 3>> :> "PacketEventData_V1") @@
    (<<2022, 2, 3>> :> "PacketEventData_V1") @@
    (<<2022, 1, 4>> :> "PacketParticipantsData_V1") @@
    (<<2022, 1, 5>> :> "PacketCarSetupData_V1") @@
    (<<2022, 1, 6>> :> "PacketCarTelemetryData_V1") @@
    (<<2022, 1, 7>> :> "PacketCarStatusData_V1") @@
    (<<2022, 1, 8>> :> "PacketFinalClassificationData_V1") @@
    (<<2022, 1, 9>> :> "PacketLobbyInfoData_V1") @@
    (<<2022, 1, 10>> :> "PacketCarDamageData_V1") @@
    (<<2022, 1, 11>> :> "PacketSessionHistoryData_V1")

\* packets.py:1701-1714
HeaderFieldsToPacketType_22 ==
    (<<2022, 1, 0>> :> "PacketMotionData_V1") @@
    (<<2022, 1, 1>> :> "PacketSessionData_V1") @@
    (<<2022, 1, 2>> :> "PacketLapData_V1") @@
    (<<2022, 1, 3>> :> "PacketEventData_V1") @@
    (<<2022, 1, 4>> :> "PacketParticipantsData_V1") @@
    (<<2022, 1, 5>> :> "PacketCarSetupData_V1") @@
    (<<2022, 1, 6>> :> "PacketCarTelemetryData_V1") @@
    (<<2022, 1, 7>> :> "PacketCarStatusData_V1") @@
    (<<2022, 1, 8>> :> "PacketFinalClassificationData_V1") @@
    (<<2022, 1, 9>> :> "PacketLobbyInfoData_V1") @@
    (<<2022, 1, 10>> :> "PacketCarDamageData_V1") @@
    (<<2022, 1, 11>> :> "PacketSessionHistoryData_V1")

\* Generation 23: format 2023, fourteen packet kinds.
HeaderFieldsToPacketType_23 ==
    (<<2023, 1, 0>> :> "PacketMotionData_23") @@
    (<<2023, 1, 1>> :> "PacketSessionData_23") @@
    (<<2023, 1, 2>> :> "PacketLapData_23") @@
    (<<2023, 1, 3>> :> "PacketEventData_23") @@
    (<<2023, 1, 4>> :> "PacketParticipantsData_23") @@
    (<<2023, 1, 5>> :> "PacketCarSetupData_23") @@
    (<<2023, 1, 6>> :> "PacketCarTelemetryData_23") @@
    (<<2023, 1, 7>> :> "PacketCarStatusData_23") @@
    (<<2023, 1, 8>> :> "PacketFinalClassificationData_23") @@
    (<<2023, 1, 9>> :> "PacketLobbyInfoData_23") @@
    (<<2023, 1, 10>> :> "PacketCarDamageData_23") @@
    (<<2023, 1, 11>> :> "PacketSessionHistoryData_23") @@
    (<<2023, 1, 12>> :> "PacketTyreSetsData_23") @@
    (<<2023, 1, 13>> :> "PacketMotionExData_23")

\* packets.py:1774-1785  the packet types whose size the script asserts,
\* each with the asserted number of bytes, in source order.
SizeAssertions ==
    << <<"PacketMotionData_V1", 1464>>,
       <<"PacketSessionData_V1", 632>>,
       <<"PacketLapData_V1", 972>>,
       <<"PacketEventData_V1", 40>>,
       <<"PacketParticipantsData_V1", 1257>>,
       <<"PacketCarSetupData_V1", 1102>>,
       <<"PacketCarTelemetryData_V1", 1347>>,
       <<"PacketCarStatusData_V1", 1058>>,
       <<"PacketFinalClassificationData_V1", 1015>>,
       <<"PacketLobbyInfoData_V1", 1191>>,
       <<"PacketCarDamageData_V1", 948>>,
       <<"PacketSessionHistoryData_V1", 1155>> >>

\* assert ctypes.sizeof(t) == n
AssertSize(a) == SizeOfType[a[1]] = a[2]

\* The names unpack_udp.py imports the two header models under.
PacketHeader22 == "PacketHeader"
PacketHeader23 == "PacketHeader_23"

(***************************************************************************)
(* Datagrams                                                               *)
(***************************************************************************)
\* How far from each size boundary the buffer lengths of the model reach.
Slack == 1

\* The explicit bytes of a datagram: as many leading bytes as the widest
\* header prefix that holds a dispatch key.
Window ==
    Max({offsetof(h, "packetId") + sizeof("c_uint8") :
            h \in {PacketHeader22, PacketHeader23}})

\* Byte values tried at each of the first Window offsets: E6 07 / E7 07 are
\* 2022 / 2023 little-endian; offsets 4 and 5 hold packetVersion and
\* packetId of a format-2022 header (ids 1 Session, 3 Event, 12 unassigned),
\* offsets 5 and 6 those of a generation-23 header.
PrefixChoices ==
    << {230, 231}, {7}, {0}, {0}, {1, 2}, {1, 3, 12}, {3} >>

\* The keys these prefixes can spell, read as either generation's header.
SampleTypes ==
    { HeaderFieldsToPacketType_22[k] :
        k \in {kk \in DOMAIN HeaderFieldsToPacketType_22 :
                 /\ kk[2] \in PrefixChoices[5]
                 /\ kk[3] \in PrefixChoices[6]} }
    \cup
    { HeaderFieldsToPacketType_23[k] :
        k \in {kk \in DOMAIN HeaderFieldsToPacketType_23 :
                 /\ kk[2] \in PrefixChoices[6]
                 /\ kk[3] \in PrefixChoices[7]} }

\* Sizes at which the decoder's checks change their answer.
Boundaries ==
    {0, SizeOfType[PacketHeader22], SizeOfType[PacketHeader23]}
    \cup {SizeOfType[t] : t \in SampleTypes}

\* Buffer lengths of the model: within Slack of a boundary.
Lengths ==
    {n \in UNION {(b - Slack)..(b + Slack) : b \in Boundaries} : n >= 0}

Min(a, b) == IF a < b THEN a ELSE b

\* All byte prefixes of length n.
RECURSIVE Prefixes(_)
Prefixes(n) ==
    IF n = 0 THEN {<<>>}
    ELSE {Append(p, b) : p \in Prefixes(n - 1), b \in PrefixChoices[n]}

\* The datagrams udp_socket.recv may deliver.
Packets ==
    UNION {{[len |-> n, bytes |-> p] : p \in Prefixes(Min(n, Window))} :
              n \in Lengths}

\* len(packet)
len(packet) == packet.len

RECURSIVE ReadLE_BigEndian(_, _, _)
\* Mutant of ReadLE: most significant byte first (ctypes.BigEndianStructure).
ReadLE_BigEndian(bytes, off, w) ==
    IF w = 0 THEN 0
    ELSE bytes[off + w] + 256 * ReadLE_BigEndian(bytes, off, w - 1)

RECURSIVE ReadLE(_, _, _)
\* The little-endian unsigned integer of width w at byte offset off.
ReadLE(bytes, off, w) ==
    IF w = 0 THEN 0
    ELSE bytes[off + 1] + 256 * ReadLE(bytes, off + 1, w - 1)

\* n bytes of value b.
Bytes(n, b) == [i \in 1..n |-> b]

\* The 24 bytes of a format-2022 header: packetFormat (low byte, high
\* byte), game version, packetVersion, packetId, and 18 bytes of session
\* uid, session time, frame identifier and car indices.
Header22Bytes(lo, hi, ver, id, fill) ==
    <<lo, hi, fill, fill, ver, id>> \o Bytes(18, fill)

\* An event datagram of n bytes: header (2022, 1, 3), string code, details.
EventBytes(n, code, fill) ==
    SubSeq(Header22Bytes(230, 7, 1, 3, 0) \o code \o Bytes(13, fill), 1, n)

(***************************************************************************)
(* ctypes instances and exceptions                                         *)
(***************************************************************************)
\* The empty buffer.
NoPacket == [len |-> 0, bytes |-> <<>>]

NoValue == [ctype |-> "", raw |-> NoPacket]

\* What a call ends in: a returned value or a raised exception.
Return(v) == [kind |-> "return", text |-> "", args |-> <<>>, value |-> v]
Raise(k, t, a) == [kind |-> k, text |-> t, args |-> a, value |-> NoValue]

\* UnpackError is the only exception class the decoder raises itself.
UnpackError(t, a) == Raise("UnpackError", t, a)

\* The bytes off .. off + n - 1 of a buffer, as far as they are explicit.
Slice(buf, off, n) ==
    [len |-> n, bytes |-> SubSeq(buf.bytes, off + 1, Min(off + n, Len(buf.bytes)))]

\* Structure t has a c_float field whose four bytes in buf are all FF (a
\* NaN).
HoldsNaN(t, buf) ==
    \E n \in DOMAIN FieldTable[t] :
        /\ FieldTable[t][n].ctype = "c_float"
        /\ FieldTable[t][n].count = 1
        /\ Len(buf.bytes) >= FieldTable[t][n].offset + 4
        /\ \A j \in 1..4 : buf.bytes[FieldTable[t][n].offset + j] = 255

\* Mutant of CopyOf: the copy validates what it reads and refuses a float
\* field that is not a number.
CopyOf_RejectsNaN(t, packet, size) ==
    IF len(packet) < size
    THEN Raise("ValueError", "Buffer size too small", <<len(packet), size>>)
    ELSE IF HoldsNaN(t, packet)
         THEN Raise("ValueError", "not a number", <<>>)
         ELSE Return([ctype |-> t, raw |-> Slice(packet, 0, size)])

\* Mutant of CopyOf: the instance is laid over the buffer it was given
\* (from_buffer), so it lives in the buffer's storage.
CopyOf_SharesBuffer(t, packet, size) ==
    IF len(packet) < size
    THEN Raise("ValueError", "Buffer size too small", <<len(packet), size>>)
    ELSE Return([ctype |-> t, raw |-> [packet EXCEPT !.len = size]])

\* An instance of structure t over its own copy of size bytes of packet:
\* the bytes are a new value that names no storage of the caller's.
CopyOf(t, packet, size) ==
    IF len(packet) < size
    THEN Raise("ValueError", "Buffer size too small", <<len(packet), size>>)
    ELSE Return([ctype |-> t, raw |-> Slice(packet, 0, size)])

\* t.from_buffer_copy(packet): copies the first sizeof(t) bytes; ctypes
\* raises ValueError when the buffer is shorter than the structure.
from_buffer_copy(t, packet) == CopyOf(t, packet, SizeOfType[t])

\* The value of the unsigned integer field described by fd.
ReadField(bytes, fd) == ReadLE(bytes, fd.offset, PrimSize[fd.ctype])

\* inst.n for an unsigned integer field n of a structure instance.
getfield(inst, n) == ReadField(inst.raw.bytes, FieldTable[inst.ctype][n])

\* The structure instance of type fd.ctype embedded at fd.offset.
SubStruct(raw, fd, size) == [ctype |-> fd.ctype, raw |-> Slice(raw, fd.offset, size)]

\* inst.n for a field n that is itself a structure.
getstruct(inst, n) ==
    SubStruct(inst.raw, FieldTable[inst.ctype][n],
              SizeOfType[FieldTable[inst.ctype][n].ctype])

\* Mutant of ArrayItem: elements counted from the start of the record, the
\* fields before the array not skipped.
ArrayItem_FromRecordStart(raw, fd, size, i) ==
    [ctype |-> fd.ctype, raw |-> Slice(raw, i * size, size)]

\* Element i of the array field fd: arrays are laid out element after
\* element, without gaps.
ArrayItem(raw, fd, size, i) ==
    [ctype |-> fd.ctype, raw |-> Slice(raw, fd.offset + i * size, size)]

\* ctypes raises IndexError for an index outside 0 .. count - 1.
ItemOf(raw, fd, i) ==
    IF i \in 0..(fd.count - 1)
    THEN Return(ArrayItem(raw, fd, SizeOfType[fd.ctype], i))
    ELSE Raise("IndexError", "invalid index", <<i>>)

\* inst.n[i] for an array field n of structures.
getitem(inst, n, i) == ItemOf(inst.raw, FieldTable[inst.ctype][n], i)

\* len(inst.n) for an array field n.
arraylen(inst, n) == FieldTable[inst.ctype][n].count

(***************************************************************************)
(* class UDPUnpacker                                                       *)
(***************************************************************************)
Unset == "<unset>"

\* No unpacker object: every attribute unset.
NoUnpacker ==
    [_udp_spec |-> Unset, _PacketHeader |-> Unset, _HeaderFieldsToPacketType |-> Unset]

\* The module-level dispatch tables an attribute can refer to.
Tables ==
    [HeaderFieldsToPacketType_22 |-> HeaderFieldsToPacketType_22,
     HeaderFieldsToPacketType_23 |-> HeaderFieldsToPacketType_23]

InvalidSpec ==
    Raise("Exception", "Please pass a udp_spec parameter that is either '22' or '23'.", <<>>)

\* Mutant of __init__: an unsupported identifier falls back to generation 22
\* instead of raising.
init_FallsBackTo22(udp_spec) ==
    LET s == [NoUnpacker EXCEPT !._udp_spec = udp_spec]
    IN  IF s._udp_spec = "23"
        THEN [self |-> [s EXCEPT !._PacketHeader = PacketHeader23,
                                 !._HeaderFieldsToPacketType = "HeaderFieldsToPacketType_23"],
              out |-> Return(NoValue)]
        ELSE [self |-> [s EXCEPT !._PacketHeader = PacketHeader22,
                                 !._HeaderFieldsToPacketType = "HeaderFieldsToPacketType_22"],
              out |-> Return(NoValue)]

\* UDPUnpacker.__init__: the object as the body leaves it, and how it ends.
__init__(udp_spec) ==
    LET s == [NoUnpacker EXCEPT !._udp_spec = udp_spec]
    IN  IF s._udp_spec = "22"
        THEN [self |-> [s EXCEPT !._PacketHeader = PacketHeader22,
                                 !._HeaderFieldsToPacketType = "HeaderFieldsToPacketType_22"],
              out |-> Return(NoValue)]
        ELSE IF s._udp_spec = "23"
        THEN [self |-> [s EXCEPT !._PacketHeader = PacketHeader23,
                                 !._HeaderFieldsToPacketType = "HeaderFieldsToPacketType_23"],
              out |-> Return(NoValue)]
        ELSE [self |-> s, out |-> InvalidSpec]

\* The constructor called without an argument takes the default.
NoArg == "<no argument>"

\* Mutant of the constructor call: the default generation is the newer one.
UDPUnpacker_Defaults23(arg) == __init__(IF arg = NoArg THEN "23" ELSE arg)

UDPUnpacker(arg) == __init__(IF arg = NoArg THEN "22" ELSE arg)

\* Mutant of the property: the generation is told from the header model
\* the object holds instead of being read from _udp_spec.
udp_spec_FromHeaderModel(self) ==
    IF self._PacketHeader = PacketHeader22 THEN "22" ELSE "23"

\* property udp_spec
udp_spec(self) == self._udp_spec

\* Mutant of the setter: the value is stored before it is validated (the
\* order __init__ uses).
setter_StoresBeforeCheck(self, new_udp_spec) ==
    LET s == [self EXCEPT !._udp_spec = new_udp_spec]
    IN  IF s._udp_spec \notin {"22", "23"}
        THEN [self |-> s, out |-> InvalidSpec]
        ELSE [self |-> s, out |-> Return(NoValue)]

\* Mutant of the setter: the header model follows the new generation, the
\* dispatch table is left behind.
setter_SwapsHeaderOnly(self, new_udp_spec) ==
    IF new_udp_spec \notin {"22", "23"}
    THEN [self |-> self, out |-> InvalidSpec]
    ELSE [self |-> [self EXCEPT
                      !._udp_spec = new_udp_spec,
                      !._PacketHeader =
                          IF new_udp_spec = "22" THEN PacketHeader22 ELSE PacketHeader23],
          out |-> Return(NoValue)]

\* udp_spec.setter
udp_spec_setter(self, new_udp_spec) ==
    IF new_udp_spec \notin {"22", "23"}
    THEN [self |-> self, out |-> InvalidSpec]
    ELSE [self |-> [self EXCEPT !._udp_spec = new_udp_spec], out |-> Return(NoValue)]

\* Mutants of the header-length check: off by one, dropped, and inclusive.
TooShort_OffByOne(actual_packet_size, header_size) ==
    actual_packet_size < header_size - 1

TooShort_Dropped(actual_packet_size, header_size) == FALSE

TooShort_Inclusive(actual_packet_size, header_size) ==
    actual_packet_size <= header_size

\* unpack_udp.py:52  actual_packet_size < header_size
TooShort(actual_packet_size, header_size) == actual_packet_size < header_size

\* Mutant of the key: packetVersion and packetId in the wrong order.
KeyOf_VersionIdSwapped(header) ==
    <<getfield(header, "packetFormat"),
      getfield(header, "packetId"),
      getfield(header, "packetVersion")>>

\* Mutant of the key: the player's car index stands in for packetId.
KeyOf_CarIndexAsId(header) ==
    <<getfield(header, "packetFormat"),
      getfield(header, "packetVersion"),
      getfield(header, "playerCarIndex")>>

\* unpack_udp.py:58  key = (header.packetFormat, header.packetVersion, header.packetId)
KeyOf(header) ==
    <<getfield(header, "packetFormat"),
      getfield(header, "packetVersion"),
      getfield(header, "packetId")>>

\* unpack_udp.py:60  key not in self._HeaderFieldsToPacketType
NoMatch(key, table) == key \notin DOMAIN table

\* Mutants of the exact-size check: only a lower bound (longer buffers pass),
\* and only an upper bound (shorter buffers pass).
BadSize_LongerPasses(actual_packet_size, expected_packet_size) ==
    actual_packet_size < expected_packet_size

BadSize_ShorterPasses(actual_packet_size, expected_packet_size) ==
    actual_packet_size > expected_packet_size

\* unpack_udp.py:69  actual_packet_size != expected_packet_size
BadSize(actual_packet_size, expected_packet_size) ==
    actual_packet_size # expected_packet_size

\* unpack_udp.py:65  packet_type = self._HeaderFieldsToPacketType[key]; a
\* dict raises KeyError for a key it does not hold.
Lookup(key, table) ==
    IF key \in DOMAIN table
    THEN Return([ctype |-> table[key], raw |-> NoPacket])
    ELSE Raise("KeyError", "", <<key>>)

\* Mutant of Sized: the value returned is built with the header model
\* instead of the packet type looked up.
Sized_ReturnsHeader(looked, packet, expected_packet_size) ==
    IF BadSize(len(packet), expected_packet_size)
    THEN UnpackError("bad size",
                     <<looked.value.ctype, expected_packet_size, len(packet)>>)
    ELSE from_buffer_copy(FieldTable[looked.value.ctype]["header"].ctype, packet)

\* unpack_udp.py:67-76  with packet_type looked up: the exact-size check and
\* the field extraction (a failed lookup propagates).
Sized(looked, packet, expected_packet_size) ==
    IF BadSize(len(packet), expected_packet_size)
    THEN UnpackError("bad size",
                     <<looked.value.ctype, expected_packet_size, len(packet)>>)
    ELSE from_buffer_copy(looked.value.ctype, packet)

\* Mutant of Extract: the event packet is sized by the details its string
\* code selects (BUTN: Buttons_V1) instead of by the whole union.
Extract_SizedByEventCode(looked, packet) ==
    IF looked.kind # "return" THEN looked
    ELSE IF /\ looked.value.ctype = "PacketEventData_V1"
            /\ Len(packet.bytes) >= 28
            /\ SubSeq(packet.bytes, 25, 28) = <<66, 85, 84, 78>>
         THEN Sized(looked, packet,
                    SizeOfType[looked.value.ctype]
                        - SizeOfType["EventDataDetails_V1"] + SizeOfType["Buttons_V1"])
         ELSE Sized(looked, packet, SizeOfType[looked.value.ctype])

\* unpack_udp.py:65-76
Extract(looked, packet) ==
    IF looked.kind # "return" THEN looked
    ELSE Sized(looked, packet, SizeOfType[looked.value.ctype])

\* Mutant of Matched: a key the table does not hold is looked up in the
\* other generation's table before it is given up.
Matched_FallsBackAcrossGenerations(key, table, packet) ==
    IF NoMatch(key, table)
    THEN IF table = HeaderFieldsToPacketType_22
         THEN IF NoMatch(key, HeaderFieldsToPacketType_23)
              THEN UnpackError("no match", <<key>>)
              ELSE Extract(Lookup(key, HeaderFieldsToPacketType_23), packet)
         ELSE IF NoMatch(key, HeaderFieldsToPacketType_22)
              THEN UnpackError("no match", <<key>>)
              ELSE Extract(Lookup(key, HeaderFieldsToPacketType_22), packet)
    ELSE Extract(Lookup(key, table), packet)

\* unpack_udp.py:60-76  with key and the dispatch table in hand
Matched(key, table, packet) ==
    IF NoMatch(key, table)
    THEN UnpackError("no match", <<key>>)
    ELSE Extract(Lookup(key, table), packet)

\* unpack_udp.py:58-76  with the header parsed (a failed copy propagates)
Parsed(self, hdr, packet) ==
    IF hdr.kind # "return" THEN hdr
    ELSE Matched(KeyOf(hdr.value), Tables[self._HeaderFieldsToPacketType], packet)

\* unpack_udp.py:52-76  with actual_packet_size and header_size computed
Measured(self, packet, actual_packet_size, header_size) ==
    IF TooShort(actual_packet_size, header_size)
    THEN UnpackError("too short", <<actual_packet_size>>)
    ELSE Parsed(self, from_buffer_copy(self._PacketHeader, packet), packet)

\* How UDPUnpacker.unpack_udp_packet(self, packet) ends.
Decode(self, packet) ==
    Measured(self, packet, len(packet), SizeOfType[self._PacketHeader])

\* The unpacker rebound to the other generation's header model and table.
OtherGeneration(self) ==
    IF self._PacketHeader = PacketHeader22
    THEN [self EXCEPT !._PacketHeader = PacketHeader23,
                      !._HeaderFieldsToPacketType = "HeaderFieldsToPacketType_23"]
    ELSE [self EXCEPT !._PacketHeader = PacketHeader22,
                      !._HeaderFieldsToPacketType = "HeaderFieldsToPacketType_22"]

SwitchOnNoMatch(self, out) ==
    [self |-> IF out.kind = "UnpackError" /\ out.text = "no match"
              THEN OtherGeneration(self)
              ELSE self,
     out |-> out]

\* Mutant of unpack_udp_packet: a key that finds no match makes the unpacker
\* switch to the other generation for the calls that follow.
unpack_SwitchesOnNoMatch(self, packet) == SwitchOnNoMatch(self, Decode(self, packet))

SwitchOnTooShort(self, out) ==
    [self |-> IF out.kind = "UnpackError" /\ out.text = "too short"
              THEN OtherGeneration(self)
              ELSE self,
     out |-> out]

\* Mutant of unpack_udp_packet: a buffer too short for the header makes the
\* unpacker try the other generation from then on.
unpack_SwitchesOnTooShort(self, packet) == SwitchOnTooShort(self, Decode(self, packet))

\* UDPUnpacker.unpack_udp_packet: the object after the call (no statement
\* of the method assigns to self), and how the call ends.
unpack_udp_packet(self, packet) ==
    [self |-> self, out |-> Decode(self, packet)]

(***************************************************************************)
(* State                                                                   *)
(***************************************************************************)
VARIABLES
    unpacker,   \* the UDPUnpacker object the caller holds (NoUnpacker: none yet)
    lastOp,     \* the most recent operation: arguments, object before, result
    rebound,    \* generation of the latest accepted udp_spec assignment on
                \* this object ("none" since construction)
    memo,       \* the first decode of a probe datagram since the last
                \* construction or accepted assignment, and whether other
                \* datagrams were decoded since
    calls,      \* decode calls in progress, one frame per caller
    errors,     \* the kinds of UnpackError raised on this unpacker so far
                \* (kept by the wire-level specification)
    script,     \* packets.py run as a script: how far its size assertions got
    heap        \* the caller's writable buffer, the storage allocated for
                \* returned records, and the records the caller keeps (kept
                \* by the storage-level specification)

vars == <<unpacker, lastOp, rebound, memo, calls, errors, script, heap>>

\* Constructor arguments tried: none, the two generations, unsupported ones.
CtorArgs == {NoArg, "22", "23", "21", "2022", ""}

\* Values assigned to udp_spec.
SetterArgs == {"22", "23", "21", "2022", ""}

Op(o, a, pre, p, r) == [op |-> o, arg |-> a, pre |-> pre, packet |-> p, out |-> r]

NoMemo == [set |-> FALSE, between |-> FALSE, packet |-> NoPacket, out |-> Return(NoValue)]

\* Datagrams whose first decode is remembered: the 40-byte format-2022
\* event, the same with one byte more, the generation-23 event, a buffer
\* one byte short of the 24-byte header, and the session-started event
\* spelled out in full, exact and one byte long.
IsProbe(p) ==
    \/ p.len \in {40, 41} /\ p.bytes = <<230, 7, 0, 0, 1, 3, 3>>
    \/ p.len \in {40, 41} /\ p.bytes = EventBytes(p.len, <<83, 83, 84, 65>>, 0)
    \/ p.len = 45 /\ p.bytes = <<231, 7, 0, 0, 1, 1, 3>>
    \/ p.len = 23 /\ p.bytes = <<230, 7, 0, 0, 1, 1, 3>>

\* Number of callers that may be inside unpack_udp_packet at once.
NumCallers == 2
Callers == 1..NumCallers

\* A caller's frame: where it stands in unpack_udp_packet, its locals, how
\* its last call ended, and (for the properties) which generation's object
\* each read of a self attribute returned and the udp_spec at entry.
Idle == [pc |-> "idle", packet |-> NoPacket, key |-> <<>>, out |-> Return(NoValue),
         seen |-> {}, spec0 |-> Unset]

\* No writable buffer, no record kept.
NoHeap == [buffer |-> <<>>, blocks |-> <<>>, held |-> <<>>]

\* packets.py imported, not executed: the block under
\* if __name__ == "__main__" is skipped.
NotRun == [running |-> FALSE, passed |-> 0, failed |-> FALSE]

Init ==
    /\ unpacker = NoUnpacker
    /\ lastOp = Op("none", "", NoUnpacker, NoPacket, Return(NoValue))
    /\ rebound = "none"
    /\ memo = NoMemo
    /\ calls = [c \in Callers |-> Idle]
    /\ errors = {}
    /\ script = NotRun
    /\ heap = NoHeap

(***************************************************************************)
(* Operations of a single-threaded caller                                  *)
(***************************************************************************)
\* unpacker = UDPUnpacker(arg): the name is bound only if __init__ returns.
Construct(arg) ==
    LET r == UDPUnpacker(arg)
        ok == r.out.kind = "return"
    IN  /\ unpacker' = IF ok THEN r.self ELSE unpacker
        /\ lastOp' = Op("construct", arg, unpacker, NoPacket, r.out)
        /\ rebound' = IF ok THEN "none" ELSE rebound
        /\ memo' = IF ok THEN NoMemo ELSE memo
        /\ UNCHANGED <<calls, errors, script, heap>>

\* unpacker.udp_spec = g
Rebind(g) ==
    LET r == udp_spec_setter(unpacker, g)
        ok == r.out.kind = "return"
    IN  /\ unpacker # NoUnpacker
        /\ unpacker' = r.self
        /\ lastOp' = Op("set", g, unpacker, NoPacket, r.out)
        /\ rebound' = IF ok THEN g ELSE rebound
        /\ memo' = IF ok THEN NoMemo ELSE memo
        /\ UNCHANGED <<calls, errors, script, heap>>

\* The caller's state once unpacker.unpack_udp_packet(p) has ended as r.
Unpacked(p, r) ==
    /\ unpacker' = r.self
    /\ lastOp' = Op("unpack", "", unpacker, p, r.out)
    /\ memo' = IF ~memo.set
               THEN IF IsProbe(p)
                    THEN [set |-> TRUE, between |-> FALSE,
                          packet |-> p, out |-> r.out]
                    ELSE memo
               ELSE [memo EXCEPT !.between = @ \/ p # memo.packet]
    /\ UNCHANGED <<rebound, calls, script, heap>>

\* unpacker.unpack_udp_packet(p), run to completion
Unpack(p) ==
    /\ unpacker # NoUnpacker
    /\ Unpacked(p, unpack_udp_packet(unpacker, p))
    /\ UNCHANGED errors

\* udp_socket.recv(2048): the datagrams handed to the unpacker once the
\* caller has constructed one.
Received == {p \in Packets : unpacker # NoUnpacker}

Next ==
    \/ \E arg \in CtorArgs : Construct(arg)
    \/ \E g \in SetterArgs : Rebind(g)
    \/ \E p \in Received : Unpack(p)

Spec == Init /\ [][Next]_vars

(***************************************************************************)
(* Callers that share one unpacker: unpack_udp_packet as the sequence of   *)
(* its reads of self._PacketHeader and self._HeaderFieldsToPacketType.     *)
(* Each read is one step; an assignment to udp_spec may fall between any   *)
(* two of them.                                                            *)
(***************************************************************************)
\* The generation a header model or a dispatch table belongs to.
GenOfHeader(h) == IF h = PacketHeader22 THEN "22" ELSE "23"
GenOfTable(t) == IF t = "HeaderFieldsToPacketType_22" THEN "22" ELSE "23"

\* Datagrams of the concurrent callers: the format-2022 event, the
\* generation-23 event, and a buffer shorter than either header.
ConcPackets ==
    {p \in Packets :
        \/ p.len = 40 /\ p.bytes = <<230, 7, 0, 0, 1, 3, 3>>
        \/ p.len = 45 /\ p.bytes = <<231, 7, 0, 0, 1, 1, 3>>
        \/ p.len = 23 /\ p.bytes = <<230, 7, 0, 0, 1, 1, 3>>}

\* The call ends: the frame keeps the result until the caller's next call.
Finish(f, out) == [f EXCEPT !.pc = "idle", !.out = out]

\* unpack_udp.py:48-55  len(packet), sizeof(self._PacketHeader), length check
CallBegin(c, p) ==
    LET h == unpacker._PacketHeader
        f == [Idle EXCEPT !.packet = p,
                          !.seen = {<<"sizeof", GenOfHeader(h)>>},
                          !.spec0 = unpacker._udp_spec]
    IN  /\ calls[c].pc = "idle"
        /\ calls' = [calls EXCEPT ![c] =
                IF TooShort(len(p), SizeOfType[h])
                THEN Finish(f, UnpackError("too short", <<len(p)>>))
                ELSE [f EXCEPT !.pc = "parse"]]
        /\ UNCHANGED <<unpacker, lastOp, rebound, memo, errors, script, heap>>

\* The frame after line 57 produced hdr.
AfterParse(f, hdr) ==
    IF hdr.kind # "return"
    THEN Finish(f, hdr)
    ELSE [f EXCEPT !.pc = "match", !.key = KeyOf(hdr.value)]

\* unpack_udp.py:57-58  self._PacketHeader.from_buffer_copy(packet), key
CallParse(c) ==
    /\ calls[c].pc = "parse"
    /\ calls' = [calls EXCEPT ![c] =
            AfterParse([calls[c] EXCEPT
                           !.seen = @ \cup {<<"parse", GenOfHeader(unpacker._PacketHeader)>>}],
                       from_buffer_copy(unpacker._PacketHeader, calls[c].packet))]
    /\ UNCHANGED <<unpacker, lastOp, rebound, memo, errors, script, heap>>

\* unpack_udp.py:60-63  key not in self._HeaderFieldsToPacketType
CallMatch(c) ==
    LET t == unpacker._HeaderFieldsToPacketType
        f == [calls[c] EXCEPT !.seen = @ \cup {<<"member", GenOfTable(t)>>}]
    IN  /\ calls[c].pc = "match"
        /\ calls' = [calls EXCEPT ![c] =
                IF NoMatch(f.key, Tables[t])
                THEN Finish(f, UnpackError("no match", <<f.key>>))
                ELSE [f EXCEPT !.pc = "lookup"]]
        /\ UNCHANGED <<unpacker, lastOp, rebound, memo, errors, script, heap>>

\* unpack_udp.py:65-76  self._HeaderFieldsToPacketType[key], size check,
\* packet_type.from_buffer_copy(packet)
CallLookup(c) ==
    LET t == unpacker._HeaderFieldsToPacketType
        f == [calls[c] EXCEPT !.seen = @ \cup {<<"lookup", GenOfTable(t)>>}]
    IN  /\ calls[c].pc = "lookup"
        /\ calls' = [calls EXCEPT ![c] =
                Finish(f, Extract(Lookup(f.key, Tables[t]), f.packet))]
        /\ UNCHANGED <<unpacker, lastOp, rebound, memo, errors, script, heap>>

\* One unpacker, already constructed for either generation, shared by all
\* callers.
InitConc ==
    /\ \E g \in {"22", "23"} : unpacker = UDPUnpacker(g).self
    /\ lastOp = Op("none", "", NoUnpacker, NoPacket, Return(NoValue))
    /\ rebound = "none"
    /\ memo = NoMemo
    /\ calls = [c \in Callers |-> Idle]
    /\ errors = {}
    /\ script = NotRun
    /\ heap = NoHeap

NextConc ==
    \/ \E g \in SetterArgs : Rebind(g)
    \/ \E c \in Callers, p \in ConcPackets : CallBegin(c, p)
    \/ \E c \in Callers : CallParse(c)
    \/ \E c \in Callers : CallMatch(c)
    \/ \E c \in Callers : CallLookup(c)

SpecConc == InitConc /\ [][NextConc]_vars

(***************************************************************************)
(* Datagrams spelled out byte by byte, decoded by one unpacker; and        *)
(* packets.py executed as a script, which runs its size assertions.        *)
(***************************************************************************)
\* How many of the cyclic renumberings of the car blocks are tried.
MaxShift == 2

NumCars == 22

RECURSIVE CarBlocks(_, _)
\* Blocks i .. NumCars - 1 of a motion body: the 60 bytes of car i all hold
\* the number ((i + shift) mod NumCars) + 1.
CarBlocks(i, shift) ==
    IF i = NumCars THEN <<>>
    ELSE Bytes(60, ((i + shift) % NumCars) + 1) \o CarBlocks(i + 1, shift)

\* Motion datagrams: header (2022, 1, 0), 22 car blocks, 120 bytes of
\* player-car data.
MotionPackets ==
    {[len |-> 1464,
      bytes |-> Header22Bytes(230, 7, 1, 0, 0) \o CarBlocks(0, shift) \o Bytes(120, 255)] :
        shift \in 0..MaxShift}

\* Event string codes: SSTA, FTLP, BUTN.
EventCodes == { <<83, 83, 84, 65>>, <<70, 84, 76, 80>>, <<66, 85, 84, 78>> }

\* Event datagrams: header (2022, 1, 3), a string code, details; one byte
\* short, exact, one byte long.
EventPackets ==
    {[len |-> n, bytes |-> EventBytes(n, code, fill)] :
        n \in {39, 40, 41}, code \in EventCodes, fill \in {0, 255}}

\* Buffers of exactly 24 bytes: packetFormat 2022, 2023 and 2022 with its
\* bytes exchanged, versions 1 and 2, ids 0, 3 and 12, every other byte
\* 0 or 255.
HeaderPackets ==
    {[len |-> 24, bytes |-> Header22Bytes(f[1], f[2], ver, id, fill)] :
        f \in { <<230, 7>>, <<231, 7>>, <<7, 230>> },
        ver \in {1, 2}, id \in {0, 3, 12}, fill \in {0, 255}}

\* Generation-23 datagrams: the 29-byte header alone and the 45-byte event.
Gen23Packets ==
    {[len |-> n,
      bytes |-> <<231, 7, 23, 1, 0, 1, 3>> \o Bytes(n - 7, fill)] :
        n \in {29, 45}, fill \in {0, 255}}

\* Buffers shorter than either header.
ShortPackets ==
    {[len |-> n, bytes |-> SubSeq(Header22Bytes(230, 7, 1, 3, 0), 1, n)] : n \in {0, 23}}

WirePackets ==
    MotionPackets \cup EventPackets \cup HeaderPackets \cup Gen23Packets \cup ShortPackets

\* Mutant of the function's exact-size check: longer buffers pass.
packets_Sized_LongerPasses(packet_type, packet, actual_packet_size, expected_packet_size) ==
    IF actual_packet_size < expected_packet_size
    THEN UnpackError("bad size", <<packet_type, expected_packet_size, actual_packet_size>>)
    ELSE from_buffer_copy(packet_type, packet)

\* packets.py:1755-1761  the function unpack_udp_packet of packets.py, with
\* packet_type and expected_packet_size in hand
packets_Sized(packet_type, packet, actual_packet_size, expected_packet_size) ==
    IF actual_packet_size # expected_packet_size
    THEN UnpackError("bad size", <<packet_type, expected_packet_size, actual_packet_size>>)
    ELSE from_buffer_copy(packet_type, packet)

\* packets.py:1753  expected_packet_size = ctypes.sizeof(packet_type)
packets_Typed(packet_type, packet, actual_packet_size) ==
    packets_Sized(packet_type, packet, actual_packet_size, SizeOfType[packet_type])

\* packets.py:1746-1751  key not in HeaderFieldsToPacketType, then the lookup
packets_Keyed(key, packet, actual_packet_size) ==
    IF key \notin DOMAIN HeaderFieldsToPacketType_22
    THEN UnpackError("no match", <<key>>)
    ELSE packets_Typed(HeaderFieldsToPacketType_22[key], packet, actual_packet_size)

\* packets.py:1743-1744  with the header copied (a failed copy propagates)
packets_Parsed(header, packet, actual_packet_size) ==
    IF header.kind # "return" THEN header
    ELSE packets_Keyed(<<getfield(header.value, "packetFormat"),
                         getfield(header.value, "packetVersion"),
                         getfield(header.value, "packetId")>>,
                       packet, actual_packet_size)

\* packets.py:1737-1743
packets_Measured(packet, actual_packet_size, header_size) ==
    IF actual_packet_size < header_size
    THEN UnpackError("too short", <<actual_packet_size>>)
    ELSE packets_Parsed(from_buffer_copy("PacketHeader", packet), packet, actual_packet_size)

\* packets.py:1721-1761  def unpack_udp_packet(packet)
packets_unpack_udp_packet(packet) ==
    packets_Measured(packet, len(packet), SizeOfType["PacketHeader"])

\* The error kinds seen once the call that ended as out is counted in.
Tally(out) ==
    IF out.kind = "UnpackError" THEN errors \cup {out.text} ELSE errors

Tallied(p, r) ==
    /\ Unpacked(p, r)
    /\ errors' = Tally(r.out)

\* unpacker.unpack_udp_packet(p) on a datagram spelled out in full.
Receive(p) ==
    /\ unpacker # NoUnpacker
    /\ Tallied(p, unpack_udp_packet(unpacker, p))

\* packets.unpack_udp_packet(p): the function of packets.py called on a
\* datagram; it takes no unpacker and leaves the caller's one alone.
CallFunction(p) ==
    /\ lastOp' = Op("function", "", unpacker, p, packets_unpack_udp_packet(p))
    /\ UNCHANGED <<unpacker, rebound, memo, calls, errors, script, heap>>

\* The datagrams handed to the unpacker of a program that imported the
\* package.
WireReceived == {p \in WirePackets : ~script.running}

\* python packets.py: the next assert statement of the __main__ block; a
\* failed assertion ends the script.
MainAssert ==
    /\ script.running
    /\ ~script.failed
    /\ script.passed < Len(SizeAssertions)
    /\ script' = IF AssertSize(SizeAssertions[script.passed + 1])
                 THEN [script EXCEPT !.passed = @ + 1]
                 ELSE [script EXCEPT !.failed = TRUE]
    /\ UNCHANGED <<unpacker, lastOp, rebound, memo, calls, errors, heap>>

\* Either packets.py is executed (no unpacker exists), or the package is
\* imported and an unpacker constructed for one of the generations.
InitWire ==
    /\ lastOp = Op("none", "", NoUnpacker, NoPacket, Return(NoValue))
    /\ rebound = "none"
    /\ memo = NoMemo
    /\ calls = [c \in Callers |-> Idle]
    /\ errors = {}
    /\ heap = NoHeap
    /\ \/ /\ script = [NotRun EXCEPT !.running = TRUE]
          /\ unpacker = NoUnpacker
       \/ /\ script = NotRun
          /\ \E g \in {"22", "23"} : unpacker = UDPUnpacker(g).self

NextWire ==
    \/ MainAssert
    \/ \E p \in WireReceived : Receive(p)
    \/ \E p \in WireReceived : CallFunction(p)

SpecWire == InitWire /\ [][NextWire]_vars

(***************************************************************************)
(* Storage: the caller passes a buffer it can write to (a bytearray),      *)
(* keeps the records it gets back, and writes to the buffer and to the     *)
(* records afterwards.  Storage 0 is the caller's buffer; blocks 1, 2, ... *)
(* are allocated for records.                                              *)
(***************************************************************************)
\* Most records the caller keeps at once.
MaxHeld == 2

\* The caller's buffer at the start: the 40-byte event datagram
\* (2022, 1, 3) with string code BUTN.
FirstBuffer == EventBytes(40, <<66, 85, 84, 78>>, 0)

\* The writes tried, as <<byte index from 1, value>>: packetId (12 is not
\* registered), the first byte of the string code, the last byte of the
\* event details.
Writes == { <<6, 12>>, <<6, 3>>, <<25, 255>>, <<25, 66>>, <<40, 255>>, <<40, 0>> }

\* The bytes in storage id.
Storage(id) == IF id = 0 THEN heap.buffer ELSE heap.blocks[id]

\* The heap after byte i of storage id is set to v.
SetStorage(h, id, i, v) ==
    IF id = 0 THEN [h EXCEPT !.buffer[i] = v] ELSE [h EXCEPT !.blocks[id][i] = v]

\* The caller's buffer as the argument of a call: its bytes, and the
\* storage they are in.
Argument == [len |-> Len(heap.buffer), bytes |-> heap.buffer, at |-> 0]

\* The heap once the caller keeps a returned record: a record whose bytes
\* name a storage lives there; one whose bytes name none was allocated by
\* the call and gets a block of its own.  taken remembers the bytes the
\* record had when it was returned.
Placed(value, h) ==
    IF "at" \in DOMAIN value.raw
    THEN [h EXCEPT !.held = Append(@, [ctype |-> value.ctype,
                                       at |-> value.raw.at,
                                       size |-> value.raw.len,
                                       taken |-> SubSeq(value.raw.bytes, 1, value.raw.len)])]
    ELSE [h EXCEPT !.blocks = Append(@, value.raw.bytes),
                   !.held = Append(@, [ctype |-> value.ctype,
                                       at |-> Len(h.blocks) + 1,
                                       size |-> value.raw.len,
                                       taken |-> value.raw.bytes])]

\* The caller's state once unpack_udp_packet(p) on its buffer ended as r.
Kept(p, r) ==
    /\ unpacker' = r.self
    /\ lastOp' = Op("unpack", "", unpacker, p, r.out)
    /\ heap' = IF r.out.kind = "return" THEN Placed(r.out.value, heap) ELSE heap
    /\ UNCHANGED <<rebound, memo, calls, errors, script>>

\* packet = unpacker.unpack_udp_packet(buffer), the record kept.
HeapDecode ==
    /\ heap # NoHeap
    /\ Len(heap.held) < MaxHeld
    /\ Kept(Argument, unpack_udp_packet(unpacker, Argument))

\* The caller writes byte w[1] of its buffer (the next datagram received
\* into it).
Overwrite(w) ==
    /\ heap # NoHeap
    /\ heap.buffer[w[1]] # w[2]
    /\ heap' = SetStorage(heap, 0, w[1], w[2])
    /\ lastOp' = Op("write", "", unpacker, NoPacket, Return(NoValue))
    /\ UNCHANGED <<unpacker, rebound, memo, calls, errors, script>>

\* The caller assigns to a field of the k-th record it keeps: byte w[1] of
\* the record's storage becomes w[2].
Poke(k, w) ==
    /\ w[1] <= heap.held[k].size
    /\ Storage(heap.held[k].at)[w[1]] # w[2]
    /\ heap' = [SetStorage(heap, heap.held[k].at, w[1], w[2])
                    EXCEPT !.held[k].taken[w[1]] = w[2]]
    /\ lastOp' = Op("poke", "", unpacker, NoPacket, Return(NoValue))
    /\ UNCHANGED <<unpacker, rebound, memo, calls, errors, script>>

\* The records kept.
Held == DOMAIN heap.held

\* The example's unpacker = UDPUnpacker(), and a buffer holding the first
\* datagram.
InitHeap ==
    /\ unpacker = UDPUnpacker(NoArg).self
    /\ lastOp = Op("none", "", NoUnpacker, NoPacket, Return(NoValue))
    /\ rebound = "none"
    /\ memo = NoMemo
    /\ calls = [c \in Callers |-> Idle]
    /\ errors = {}
    /\ script = NotRun
    /\ heap = [NoHeap EXCEPT !.buffer = FirstBuffer]

NextHeap ==
    \/ HeapDecode
    \/ \E w \in Writes : Overwrite(w)
    \/ \E k \in Held, w \in Writes : Poke(k, w)

SpecHeap == InitHeap /\ [][NextHeap]_vars

(***************************************************************************)
(* Vocabulary of the properties                                            *)
(***************************************************************************)
\* The header model and the dispatch table that belong to generation g
\* (the import lines of unpack_udp.py name them by generation).
GenHeader(g) == IF g = "22" THEN PacketHeader22 ELSE PacketHeader23
GenTable(g) ==
    IF g = "22" THEN "HeaderFieldsToPacketType_22" ELSE "HeaderFieldsToPacketType_23"

\* The dispatch key spelled by the bytes of buffer p under header model h:
\* the bytes at the packed offsets of the three key fields, least
\* significant byte first.
WireKey(h, p) ==
    <<p.bytes[offsetof(h, "packetFormat") + 1]
        + 256 * p.bytes[offsetof(h, "packetFormat") + 2],
      p.bytes[offsetof(h, "packetVersion") + 1],
      p.bytes[offsetof(h, "packetId") + 1]>>

\* The last operation was a decode call; its object, buffer and result.
Decoded == lastOp.op = "unpack"
HeldHeader == lastOp.pre._PacketHeader
HeldTable == Tables[lastOp.pre._HeaderFieldsToPacketType]
HeldHeaderSize == SizeOfType[HeldHeader]
Buf == lastOp.packet
Out == lastOp.out
HasHeader == Buf.len >= HeldHeaderSize
Registered == HasHeader /\ WireKey(HeldHeader, Buf) \in DOMAIN HeldTable
ExpectedSize == SizeOfType[HeldTable[WireKey(HeldHeader, Buf)]]
Failed(text) == Out.kind = "UnpackError" /\ Out.text = text

\* C1: after an accepted assignment udp_spec = G, every later decode call on
\* the unpacker uses generation G's header model and generation G's dispatch
\* table.
C1_RebindSwapsHeaderAndTable ==
    (Decoded /\ rebound # "none") =>
        /\ HeldHeader = GenHeader(rebound)
        /\ lastOp.pre._HeaderFieldsToPacketType = GenTable(rebound)

\* C2: a decode call returns a record exactly when the buffer is at least as
\* long as the held header model, its key is in the held dispatch table, and
\* its length equals the size of the packet type registered for the key; it
\* then returns an instance of that type, and every other call raises
\* UnpackError (no other exception, in particular none from the extraction).
C2_SuccessIffThreeChecks ==
    Decoded =>
        IF Registered /\ Buf.len = ExpectedSize
        THEN /\ Out.kind = "return"
             /\ Out.value.ctype = HeldTable[WireKey(HeldHeader, Buf)]
        ELSE Out.kind = "UnpackError"

C2_Witness ==
    /\ Decoded
    /\ Registered
    /\ Buf.len = ExpectedSize
    /\ Out.kind = "return"

\* C3: a buffer of any length below the header size, the empty buffer
\* included, makes the call raise the too-short UnpackError, whatever its
\* bytes; never another exception, never a record.
C3_ShortBufferTooShort ==
    (Decoded /\ Buf.len < HeldHeaderSize) => Failed("too short")

C3_Witness ==
    /\ Decoded
    /\ Buf.len = HeldHeaderSize - 1
    /\ Failed("too short")
    /\ lastOp.pre._PacketHeader = PacketHeader23

\* C4: a buffer of at least header size whose key is not in the held
\* dispatch table makes the call raise the no-match UnpackError carrying
\* that key; no packet type is substituted.
C4_UnknownKeyNoMatch ==
    (Decoded /\ HasHeader /\ ~Registered) =>
        /\ Failed("no match")
        /\ Out.args = <<WireKey(HeldHeader, Buf)>>

C4_Witness ==
    /\ Decoded
    /\ HasHeader
    /\ ~Registered
    /\ Failed("no match")
    /\ Buf.len = 40

\* C5: a buffer of at least header size with a registered key whose length
\* differs from the registered type's size, by one byte or more in either
\* direction, makes the call raise the bad-size UnpackError naming the type,
\* the expected size and the actual length; no record is returned.
C5_WrongSizeBadSize ==
    (Decoded /\ Registered /\ Buf.len # ExpectedSize) =>
        /\ Failed("bad size")
        /\ Out.args = <<HeldTable[WireKey(HeldHeader, Buf)], ExpectedSize, Buf.len>>

C5_Witness ==
    /\ Decoded
    /\ Registered
    /\ Buf.len = ExpectedSize - 1
    /\ Failed("bad size")

\* C7: a constructor call with an identifier other than "22" and "23" raises
\* and binds no unpacker, so every decode call runs on an object whose
\* generation is "22" or "23"; a call with "22" or "23" binds that
\* generation's header model and dispatch table.
C7_ConstructorValidates ==
    /\ (lastOp.op = "construct" /\ lastOp.arg \in {"22", "23"}) =>
            /\ lastOp.out.kind = "return"
            /\ unpacker._udp_spec = lastOp.arg
            /\ unpacker._PacketHeader = GenHeader(lastOp.arg)
            /\ unpacker._HeaderFieldsToPacketType = GenTable(lastOp.arg)
    /\ (lastOp.op = "construct" /\ lastOp.arg \notin {"22", "23", NoArg}) =>
            /\ lastOp.out.kind = "Exception"
            /\ unpacker = lastOp.pre
    /\ Decoded => lastOp.pre._udp_spec \in {"22", "23"}
    /\ unpacker # NoUnpacker => unpacker._udp_spec \in {"22", "23"}

C7_Witness ==
    /\ lastOp.op = "construct"
    /\ lastOp.arg = "21"
    /\ lastOp.out.kind = "Exception"
    /\ unpacker = NoUnpacker

\* C8: assigning udp_spec a value other than "22" and "23" raises and leaves
\* the generation binding, the header model and the dispatch table of the
\* unpacker as they were.
C8_RejectedAssignmentChangesNothing ==
    (lastOp.op = "set" /\ lastOp.arg \notin {"22", "23"}) =>
        /\ lastOp.out.kind = "Exception"
        /\ unpacker = lastOp.pre

C8_Witness ==
    /\ lastOp.op = "set"
    /\ lastOp.arg = "21"
    /\ lastOp.out.kind = "Exception"
    /\ unpacker # NoUnpacker

\* C9: the checks apply in the order header length, key lookup, exact size:
\* a buffer shorter than the header is too short even when its bytes spell a
\* registered key, a buffer with an unregistered key is a no-match whatever
\* its length, and a bad-size error is raised only for a registered key.
C9_CheckOrder ==
    Decoded =>
        /\ ~HasHeader => Out.text = "too short"
        /\ (HasHeader /\ ~Registered) => Out.text = "no match"
        /\ Out.text = "no match" => HasHeader
        /\ Out.text = "bad size" => Registered

\* A buffer that fails all three checks at once is reported as too short.
C9_Witness ==
    /\ Decoded
    /\ ~HasHeader
    /\ Len(Buf.bytes) = Window
    /\ WireKey(PacketHeader22, Buf) \in DOMAIN HeaderFieldsToPacketType_22
    /\ HeldHeader = PacketHeader23
    /\ Out.text = "too short"

\* C10: a decode call, returning or raising, leaves the unpacker object as
\* it was, and a buffer decoded again under the same binding ends as it did
\* the first time, whatever was decoded in between.
C10_DecodeKeepsNoState ==
    Decoded =>
        /\ unpacker = lastOp.pre
        /\ (memo.set /\ memo.packet = Buf) =>
                /\ Out.kind = memo.out.kind
                /\ Out.text = memo.out.text
                /\ Out = memo.out

C10_Witness ==
    /\ Decoded
    /\ memo.set
    /\ memo.between
    /\ memo.packet = Buf
    /\ Out.kind = "return"

\* Buffer p is well-formed for generation g: long enough for g's header,
\* its key registered in g's table, its length the registered type's size.
WellFormed(g, p) ==
    /\ p.len >= SizeOfType[GenHeader(g)]
    /\ WireKey(GenHeader(g), p) \in DOMAIN Tables[GenTable(g)]
    /\ p.len = SizeOfType[Tables[GenTable(g)][WireKey(GenHeader(g), p)]]

AllErrors == {"too short", "no match", "bad size"}

\* C11: whatever UnpackErrors earlier calls on the unpacker raised (too
\* short, no match, bad size, any number of each), a call on a buffer that
\* is well-formed for the generation the unpacker was constructed with
\* returns a record; and every call ends either in a record that is the
\* whole buffer, with no error attached, or in an error with no record.
C11_ErrorsScopedToCall ==
    Decoded =>
        /\ errors \subseteq AllErrors
        /\ WellFormed(unpacker._udp_spec, Buf) => Out.kind = "return"
        /\ Out.kind = "return" =>
                /\ Out.text = "" /\ Out.args = <<>>
                /\ Out.value.raw.len = Buf.len
                /\ Out.value.raw.bytes = Buf.bytes
        /\ Out.kind # "return" => Out.value = NoValue

\* A record returned after errors of all three kinds on the same unpacker.
C11_Witness ==
    /\ Decoded
    /\ errors = AllErrors
    /\ WellFormed(unpacker._udp_spec, Buf)
    /\ Out.kind = "return"

\* The sizes the claim lists, by packetId 0 .. 11: Motion, Session, LapData,
\* Event, Participants, CarSetup, CarTelemetry, CarStatus,
\* FinalClassification, LobbyInfo, CarDamage, SessionHistory.
ListedSizes ==
    <<1464, 632, 972, 40, 1257, 1102, 1347, 1058, 1015, 1191, 948, 1155>>

\* Width of field i of structure t: element size times element count.
FieldWidth(t, i) ==
    (IF Layout[t][i].ctype \in DOMAIN PrimSize
     THEN PrimSize[Layout[t][i].ctype]
     ELSE SizeOfType[Layout[t][i].ctype]) * Layout[t][i].count

\* The widths of the fields of t added up, nothing in between.
PackedSum(t) == SumTo([i \in 1..Len(Layout[t]) |-> FieldWidth(t, i)], Len(Layout[t]))

MotionCase ==
    /\ Decoded
    /\ lastOp.pre._udp_spec = "22"
    /\ HeldHeader = PacketHeader22
    /\ Buf.len = 1464
    /\ Buf.bytes[1] + 256 * Buf.bytes[2] = 2022
    /\ Buf.bytes[5] = 1
    /\ Buf.bytes[6] = 0

LongEventCase ==
    /\ Decoded
    /\ lastOp.pre._udp_spec = "22"
    /\ HeldHeader = PacketHeader22
    /\ Buf.len = 41
    /\ Buf.bytes[1] + 256 * Buf.bytes[2] = 2022
    /\ Buf.bytes[5] = 1
    /\ Buf.bytes[6] = 3

\* The widths of the members of the event-details union.
MemberWidths ==
    {FieldWidth("EventDataDetails_V1", i) : i \in 1..Len(EventDataDetails_V1)}

OtherTable ==
    IF lastOp.pre._HeaderFieldsToPacketType = "HeaderFieldsToPacketType_22"
    THEN HeaderFieldsToPacketType_23
    ELSE HeaderFieldsToPacketType_22

\* key differs from some key of table in exactly one component.
NearMiss(key, table) ==
    \E k \in DOMAIN table : Cardinality({i \in 1..3 : k[i] # key[i]}) = 1

\* C15: a key that is not in the held dispatch table ends the call in the
\* no-match UnpackError and never in a record, also when the key is one
\* component away from a key of the held table or is a key of the other
\* generation's table.
C15_ExactMatchNoFallback ==
    (/\ Decoded
     /\ HasHeader
     /\ WireKey(HeldHeader, Buf) \notin DOMAIN HeldTable
     /\ \/ WireKey(HeldHeader, Buf) \in DOMAIN OtherTable
        \/ NearMiss(WireKey(HeldHeader, Buf), HeldTable))
    => /\ Out.kind # "return"
       /\ Failed("no match")
       /\ Out.args = <<WireKey(HeldHeader, Buf)>>

\* A key of the other generation's table, one component away from a key of
\* the held table, found no match.
C15_Witness ==
    /\ Decoded
    /\ HasHeader
    /\ WireKey(HeldHeader, Buf) \notin DOMAIN HeldTable
    /\ WireKey(HeldHeader, Buf) \in DOMAIN OtherTable
    /\ NearMiss(WireKey(HeldHeader, Buf), HeldTable)
    /\ Failed("no match")

\* The call that ended as out got as far as the size check.
SizeChecked(out) ==
    out.kind = "return" \/ (out.kind = "UnpackError" /\ out.text = "bad size")

\* The packet type and the expected size that call settled on.
TypeChecked(out) ==
    IF out.kind = "return" THEN out.value.ctype ELSE out.args[1]
SizeExpected(out) ==
    IF out.kind = "return" THEN out.value.raw.len ELSE out.args[2]

\* C16: each key of a dispatch table names one packet type with one size,
\* and two buffers with the same registered key, decoded by the same
\* unpacker, are checked as the same packet type against the same expected
\* size, whatever their length and their other bytes (the event's string
\* code and details included).
C16_ExpectedSizeByKeyOnly ==
    /\ \A g \in DOMAIN Tables : \A k \in DOMAIN Tables[g] :
            Tables[g][k] \in DOMAIN SizeOfType
    /\ (/\ Decoded
        /\ memo.set
        /\ Registered
        /\ WireKey(HeldHeader, Buf) = WireKey(HeldHeader, memo.packet))
       => /\ SizeChecked(Out) /\ SizeChecked(memo.out)
          /\ TypeChecked(Out) = TypeChecked(memo.out)
          /\ SizeExpected(Out) = SizeExpected(memo.out)
          /\ SizeExpected(Out) = SizeOfType[HeldTable[WireKey(HeldHeader, Buf)]]

\* The session-started event was decoded first; the call just ended
\* decoded an event with another string code, other details and another
\* length against the same expected size.
C16_Witness ==
    /\ Decoded
    /\ memo.set
    /\ Registered
    /\ WireKey(HeldHeader, Buf) = WireKey(HeldHeader, memo.packet)
    /\ Len(Buf.bytes) >= 29
    /\ Len(memo.packet.bytes) >= 29
    /\ SubSeq(Buf.bytes, 25, 28) # SubSeq(memo.packet.bytes, 25, 28)
    /\ Buf.bytes[29] # memo.packet.bytes[29]
    /\ Buf.len # memo.packet.len
    /\ SizeExpected(Out) = SizeExpected(memo.out)

\* C17: the too-short UnpackError carries the actual length of the buffer
\* and the size of the header.
C17_TooShortCarriesBothSizes ==
    (Decoded /\ Failed("too short")) => Out.args = <<Buf.len, HeldHeaderSize>>

\* C18: for a buffer at least as long as the held header, whatever its
\* bytes, the header parse returns a header, and the call ends in a record,
\* in the no-match UnpackError or in the bad-size UnpackError: never in the
\* too-short error, never in another exception.
C18_HeaderParseNeverFails ==
    (Decoded /\ HasHeader) =>
        /\ from_buffer_copy(HeldHeader, Buf).kind = "return"
        /\ ~Failed("too short")
        /\ \/ Out.kind = "return"
           \/ Failed("no match")
           \/ Failed("bad size")

\* A buffer of exactly header size whose bytes after the key are all FF
\* (session time a NaN, every index 255) went through the header parse.
C18_Witness ==
    /\ Decoded
    /\ Buf.len = HeldHeaderSize
    /\ Len(Buf.bytes) = Buf.len
    /\ \A j \in 8..Buf.len : Buf.bytes[j] = 255
    /\ Failed("no match")

\* The key the header step of the last call read (unpack_udp.py:57-58).
StepKey == KeyOf(from_buffer_copy(HeldHeader, Buf).value)

\* C19: a record returned by a decode call is an instance of the type the
\* held dispatch table gives for the key of the header step, and the
\* packetFormat, packetVersion and packetId of the record's own header are
\* that key.
C19_RecordMatchesKey ==
    (Decoded /\ Out.kind = "return") =>
        /\ StepKey \in DOMAIN HeldTable
        /\ Out.value.ctype = HeldTable[StepKey]
        /\ KeyOf(getstruct(Out.value, "header")) = StepKey
        /\ StepKey = WireKey(HeldHeader, Buf)

\* A session record of format 2022 was returned.
C19_Witness ==
    /\ Decoded
    /\ Out.kind = "return"
    /\ Out.value.ctype = "PacketSessionData_V1"
    /\ KeyOf(getstruct(Out.value, "header")) = <<2022, 1, 1>>

\* The key spelled by bytes 0, 1, 4 and 5 of the last call's buffer.
BytesKey == <<Buf.bytes[1] + 256 * Buf.bytes[2], Buf.bytes[5], Buf.bytes[6]>>

\* C20: with the format-2022 header model, packetFormat, packetVersion and
\* packetId lie at offsets 0, 4 and 5 (nothing between the fields), and the
\* key the call reads is (byte 0 + 256 * byte 1, byte 4, byte 5) of the
\* buffer: it is the key a no-match error reports, it decides whether the
\* call finds a match, and bytes E6 07 .. .. 01 00 give (2022, 1, 0).
C20_KeyAtPackedOffsets ==
    /\ offsetof(PacketHeader22, "packetFormat") = 0
    /\ offsetof(PacketHeader22, "gameMajorVersion") = 2
    /\ offsetof(PacketHeader22, "gameMinorVersion") = 3
    /\ offsetof(PacketHeader22, "packetVersion") = 4
    /\ offsetof(PacketHeader22, "packetId") = 5
    /\ (Decoded /\ HeldHeader = PacketHeader22 /\ HasHeader) =>
            /\ StepKey = BytesKey
            /\ Failed("no match") => Out.args = <<BytesKey>>
            /\ Failed("no match") <=> BytesKey \notin DOMAIN HeldTable
            /\ SubSeq(Buf.bytes, 1, 2) \o SubSeq(Buf.bytes, 5, 6) = <<230, 7, 1, 0>>
                    => /\ StepKey = <<2022, 1, 0>>
                       /\ SizeChecked(Out)
                       /\ TypeChecked(Out) = "PacketMotionData_V1"

\* A 24-byte buffer E6 07 FF FF 01 00 .. was read as key (2022, 1, 0).
C20_Witness ==
    /\ Decoded
    /\ HeldHeader = PacketHeader22
    /\ Buf.len = 24
    /\ SubSeq(Buf.bytes, 1, 6) = <<230, 7, 255, 255, 1, 0>>
    /\ Failed("bad size")
    /\ Out.args[1] = "PacketMotionData_V1"

\* C22: whatever constructions, accepted and rejected assignments and
\* decode calls came before, the generation the udp_spec property names is
\* the one whose header model and dispatch table the unpacker holds, and
\* with which its decode calls run.
C22_PropertyNamesGenerationUsed ==
    /\ unpacker # NoUnpacker =>
            /\ unpacker._PacketHeader = GenHeader(udp_spec(unpacker))
            /\ unpacker._HeaderFieldsToPacketType = GenTable(udp_spec(unpacker))
    /\ Decoded =>
            /\ HeldHeader = GenHeader(udp_spec(lastOp.pre))
            /\ lastOp.pre._HeaderFieldsToPacketType = GenTable(udp_spec(lastOp.pre))

\* C23: the udp_spec property of an unpacker is "22" or "23": after a
\* construction it is the constructor's argument ("22" when none is given),
\* after an accepted assignment the value assigned, and it stays the value
\* of the latest accepted assignment through rejected assignments, failed
\* constructions and decode calls, each of which leaves it as it was.
C23_PropertyTracksAssignments ==
    unpacker # NoUnpacker =>
        /\ udp_spec(unpacker) \in {"22", "23"}
        /\ rebound # "none" => udp_spec(unpacker) = rebound
        /\ (lastOp.op = "construct" /\ lastOp.out.kind = "return") =>
                udp_spec(unpacker) = IF lastOp.arg = NoArg THEN "22" ELSE lastOp.arg
        /\ (lastOp.op = "set" /\ lastOp.out.kind = "return") =>
                udp_spec(unpacker) = lastOp.arg
        /\ (lastOp.op \in {"set", "construct"} /\ lastOp.out.kind # "return") =>
                udp_spec(unpacker) = udp_spec(lastOp.pre)
        /\ Decoded => udp_spec(unpacker) = udp_spec(lastOp.pre)

\* A decode call on an unpacker constructed for one generation and
\* assigned the other: the property still shows the value assigned.
C23_Witness ==
    /\ Decoded
    /\ rebound = "23"
    /\ HeldHeader = PacketHeader22
    /\ udp_spec(unpacker) = "23"

\* C27: UDPUnpacker() with no argument returns an unpacker whose udp_spec
\* is "22" and which holds the generation-22 header model and dispatch
\* table; decoding with it, the 40-byte format-2022 event is returned as a
\* PacketEventData_V1, the 45-byte generation-23 event finds no match, and
\* a 23-byte buffer is too short.
C27_DefaultIsGeneration22 ==
    (lastOp.op = "construct" /\ lastOp.arg = NoArg) =>
        /\ Out.kind = "return"
        /\ udp_spec(unpacker) = "22"
        /\ unpacker._PacketHeader = PacketHeader22
        /\ unpacker._HeaderFieldsToPacketType = "HeaderFieldsToPacketType_22"
        /\ \A p \in ConcPackets :
                LET r == unpack_udp_packet(unpacker, p).out
                IN  /\ p.len = 40 =>
                            r.kind = "return" /\ r.value.ctype = "PacketEventData_V1"
                    /\ p.len = 45 => r.kind = "UnpackError" /\ r.text = "no match"
                    /\ p.len = 23 => r.kind = "UnpackError" /\ r.text = "too short"

\* The example's unpacker = UDPUnpacker(), replacing an unpacker that was
\* bound to generation 23.
C27_Witness ==
    /\ lastOp.op = "construct"
    /\ lastOp.arg = NoArg
    /\ lastOp.pre._udp_spec = "23"
    /\ udp_spec(unpacker) = "22"

\* How a call ended, up to the bytes of the record: the error kind, or
\* success with the packet type of the record.
ResultClass(out) ==
    IF out.kind = "return" THEN <<"return", out.value.ctype>> ELSE <<out.kind, out.text>>

\* Buffers p and q have the same length and agree on their bytes 0, 1, 4
\* and 5 (as far as they reach).
SameKeyBytes(p, q) ==
    /\ p.len = q.len
    /\ \A i \in {1, 2, 5, 6} : i <= p.len => p.bytes[i] = q.bytes[i]

FunctionCalled == lastOp.op = "function"

Registered22(p) == WireKey(PacketHeader22, p) \in DOMAIN HeaderFieldsToPacketType_22

\* A call that did not return a record: registered keys end as a size
\* mismatch, unregistered ones as no match.
RejectedByKey ==
    /\ Out.kind # "return"
    /\ Registered22(Buf) => Failed("bad size")
    /\ ~Registered22(Buf) => Failed("no match")

\* C25: the generation-22 header is 24 bytes, the sum of its field widths
\* 2+1+1+1+1+8+4+4+1+1; every packet type of the format-2022 table is
\* larger; and a buffer of exactly 24 bytes, decoded by an unpacker holding
\* the generation-22 header and table or by the function of packets.py, is
\* never returned as a record: it ends as a size mismatch if its key is
\* registered and as no match if it is not.
C25_HeaderSizedBufferRejected ==
    /\ SizeOfType[PacketHeader22] = 24
    /\ [i \in 1..Len(Layout[PacketHeader22]) |-> FieldWidth(PacketHeader22, i)]
            = <<2, 1, 1, 1, 1, 8, 4, 4, 1, 1>>
    /\ \A key \in DOMAIN HeaderFieldsToPacketType_22 :
            SizeOfType[HeaderFieldsToPacketType_22[key]] > SizeOfType[PacketHeader22]
    /\ (Decoded /\ HeldHeader = PacketHeader22
                /\ lastOp.pre._HeaderFieldsToPacketType = "HeaderFieldsToPacketType_22"
                /\ Buf.len = 24) => RejectedByKey
    /\ (FunctionCalled /\ Buf.len = 24) => RejectedByKey

\* A 24-byte buffer with the registered key (2022, 1, 3) was rejected by
\* the method as a size mismatch against the 40-byte event packet.
C25_Witness ==
    /\ Decoded
    /\ HeldHeader = PacketHeader22
    /\ Buf.len = 24
    /\ WireKey(PacketHeader22, Buf) = <<2022, 1, 3>>
    /\ Failed("bad size")
    /\ Out.args = <<"PacketEventData_V1", 40, 24>>

\* The values of the PacketID members.
PacketIDs == {PacketID[m] : m \in DOMAIN PacketID}

\* The last call had a whole generation-22 header to read and the
\* format-2022 table to look its key up in.
Looked22 ==
    /\ Buf.len >= SizeOfType[PacketHeader22]
    /\ \/ FunctionCalled
       \/ /\ Decoded
          /\ HeldHeader = PacketHeader22
          /\ lastOp.pre._HeaderFieldsToPacketType = "HeaderFieldsToPacketType_22"

\* C26: the format-2022 table holds exactly the keys (2022, 1, id) for the
\* twelve PacketID values 0..11 and maps them to twelve different packet
\* types; a buffer whose key has another packetFormat, another
\* packetVersion or a packetId above 11 ends as no match, and one with a
\* key of the table does not.
C26_TwelveKeysOnePerPacketID ==
    /\ Cardinality(DOMAIN PacketID) = 12
    /\ PacketIDs = 0..11
    /\ DOMAIN HeaderFieldsToPacketType_22 = {<<2022, 1, id>> : id \in PacketIDs}
    /\ Cardinality({HeaderFieldsToPacketType_22[k] : k \in DOMAIN HeaderFieldsToPacketType_22}) = 12
    /\ Looked22 =>
            Failed("no match") <=>
                \/ WireKey(PacketHeader22, Buf)[1] # 2022
                \/ WireKey(PacketHeader22, Buf)[2] # 1
                \/ WireKey(PacketHeader22, Buf)[3] > 11

\* A buffer with packetFormat 2022, packetId 3 and packetVersion 2 ended
\* as no match.
C26_Witness ==
    /\ Decoded
    /\ Looked22
    /\ WireKey(PacketHeader22, Buf) = <<2022, 2, 3>>
    /\ Failed("no match")

\* The bytes record k has now.
Content(k) == SubSeq(Storage(heap.held[k].at), 1, heap.held[k].size)

\* C21: a decode leaves the caller's buffer as it was passed; every record
\* the caller keeps still has the bytes it was returned with (changed only
\* by the caller's own writes to that record), whatever was written since
\* to the buffer or to other records; no record lives in the buffer's
\* storage, and no two records live in the same storage.
C21_FreshCopyPerCall ==
    /\ (Decoded /\ "at" \in DOMAIN Buf) => Storage(Buf.at) = Buf.bytes
    /\ \A k \in Held :
            /\ Content(k) = heap.held[k].taken
            /\ heap.held[k].at # 0
            /\ \A j \in Held : j # k => heap.held[j].at # heap.held[k].at

\* Two records are kept that were decoded from the same buffer with
\* different bytes in it, and the buffer has been written again since: it
\* differs from both.
C21_Witness ==
    /\ Len(heap.held) = 2
    /\ heap.held[1].taken # heap.held[2].taken
    /\ heap.held[1].taken[25] = 66
    /\ heap.held[2].taken[25] = 255
    /\ heap.buffer[6] = 12

\* The generations whose objects the reads of caller c's call returned.
GensSeen(c) == {s[2] : s \in calls[c].seen}

\* C6: however assignments to udp_spec interleave with the decode calls in
\* progress on the same unpacker, the reads of one call (header size, header
\* parse, key membership, table lookup) all return objects of one
\* generation: never the header model of one and the table of the other.
C6_NoMixedPairing ==
    \A c \in Callers : Cardinality(GensSeen(c)) <= 1

\* A call that has passed three of its reads while udp_spec was reassigned
\* to the other generation under it.
C6_Witness ==
    \E c \in Callers :
        /\ calls[c].pc = "lookup"
        /\ Cardinality(calls[c].seen) = 3
        /\ calls[c].spec0 # unpacker._udp_spec
        /\ unpacker._udp_spec \in {"22", "23"}

====
